---------------------------- MODULE Spec2Model ----------------------------
(***************************************************************************)
(* A model of the AI text-processing client of AI-Chat-Organizer:          *)
(*   - the SSE stream decoder and the token generator                      *)
(*     chatWithDocumentStream (services/geminiService.ts),                 *)
(*   - its consumer handleSendMessage (components/DocumentView.tsx),       *)
(*   - the analyzers analyzeWithGoogle / analyzeWithOpenAI and the segment *)
(*     assembly of handleProcess.                                          *)
(*                                                                         *)
(* Text is modelled as a sequence of one-character strings, so that line   *)
(* splitting, trimming, prefix tests and JSON parsing are computed on the  *)
(* characters, as the code computes them.                                  *)
(***************************************************************************)
EXTENDS Integers, Sequences, FiniteSets, TLC

(***************************************************************************)
(* Strings: the String.prototype methods the code calls.                   *)
(***************************************************************************)

\* The characters String.prototype.trim removes (those that occur here).
WhiteSpace == {" ", "\n", "\r", "\t"}

\* s.trim(): from the first to the last character that is no white space.
Trim(s) ==
  LET keep == {i \in 1..Len(s) : s[i] \notin WhiteSpace}
  IN IF keep = {} THEN <<>>
     ELSE SubSeq(s, CHOOSE i \in keep : \A j \in keep : i <= j,
                    CHOOSE i \in keep : \A j \in keep : j <= i)

\* s.startsWith(p)
StartsWith(s, p) == Len(s) >= Len(p) /\ SubSeq(s, 1, Len(p)) = p

\* s.slice(n), n >= 0
Slice(s, n) == SubSeq(s, n + 1, Len(s))

\* s.split("\n"): the pieces between the newlines; always at least one piece.
Split(s) ==
  LET nls == {i \in 1..Len(s) : s[i] = "\n"}
      k == Cardinality(nls)
      \* the index of the j-th newline, with the two ends of s as 0-th and last
      nth(j) == IF j = 0 THEN 0
                ELSE IF j = k + 1 THEN Len(s) + 1
                ELSE CHOOSE i \in nls : Cardinality({m \in nls : m < i}) = j - 1
  IN [j \in 1..(k + 1) |-> SubSeq(s, nth(j - 1) + 1, nth(j) - 1)]

\* a.join(sep) of a sequence of texts
RECURSIVE Join(_, _)
Join(a, sep) ==
  IF a = <<>> THEN <<>>
  ELSE IF Len(a) = 1 THEN a[1]
  ELSE a[1] \o sep \o Join(Tail(a), sep)

(***************************************************************************)
(* JavaScript values.  A value is a record tagged by t:                    *)
(*   "undef", "null", "bool" (b: BOOLEAN), "num" (n: integer),             *)
(*   "str" (s: text), "arr" (a: sequence of values),                       *)
(*   "obj" (p: sequence of <<key, value>> in the object's key order).      *)
(***************************************************************************)
Undefined == [t |-> "undef"]
JNull == [t |-> "null"]
JBool(b) == [t |-> "bool", b |-> b]
JNum(n) == [t |-> "num", n |-> n]
JStr(s) == [t |-> "str", s |-> s]
JArr(a) == [t |-> "arr", a |-> a]
JObj(p) == [t |-> "obj", p |-> p]

IsArray(x) == x.t = "arr"

\* ToBoolean(x): what `if (x)`, `!x` and `x || y` test.
Truthy(x) ==
  CASE x.t = "undef" -> FALSE
    [] x.t = "null" -> FALSE
    [] x.t = "bool" -> x.b
    [] x.t = "num" -> x.n # 0
    [] x.t = "str" -> x.s # <<>>
    [] OTHER -> TRUE

\* x || y
OrElse(x, y) == IF Truthy(x) THEN x ELSE y

HasKey(o, k) == o.t = "obj" /\ \E i \in 1..Len(o.p) : o.p[i][1] = k

\* o[k] of a value that is not null or undefined: an own property of an object,
\* undefined otherwise (the properties read here are no built-in ones).
Get(o, k) ==
  IF HasKey(o, k)
  THEN o.p[CHOOSE i \in 1..Len(o.p) : o.p[i][1] = k][2]
  ELSE Undefined

\* a[i] with a zero-based index: an element of an array, a character of a
\* string, undefined otherwise.
At(a, i) ==
  CASE a.t = "arr" /\ i + 1 <= Len(a.a) -> a.a[i + 1]
    [] a.t = "str" /\ i + 1 <= Len(a.s) -> JStr(<<a.s[i + 1]>>)
    [] OTHER -> Undefined

Nullish(x) == x.t \in {"undef", "null"}

DigitChars == {"0", "1", "2", "3", "4", "5", "6", "7", "8", "9"}

DigitVal(c) ==
  CASE c = "0" -> 0 [] c = "1" -> 1 [] c = "2" -> 2 [] c = "3" -> 3
    [] c = "4" -> 4 [] c = "5" -> 5 [] c = "6" -> 6 [] c = "7" -> 7
    [] c = "8" -> 8 [] c = "9" -> 9

DigitChar(n) ==
  CASE n = 0 -> "0" [] n = 1 -> "1" [] n = 2 -> "2" [] n = 3 -> "3"
    [] n = 4 -> "4" [] n = 5 -> "5" [] n = 6 -> "6" [] n = 7 -> "7"
    [] n = 8 -> "8" [] n = 9 -> "9"

RECURSIVE NatToText(_)
NatToText(n) ==
  IF n < 10 THEN <<DigitChar(n)>>
  ELSE Append(NatToText(n \div 10), DigitChar(n % 10))

\* Property definition in key order: a repeated key keeps its place and takes
\* the later value (an object literal, a spread, JSON.parse of a repeated key).
SetKey(p, k, x) ==
  IF \E i \in 1..Len(p) : p[i][1] = k
  THEN [i \in 1..Len(p) |-> IF p[i][1] = k THEN <<k, x>> ELSE p[i]]
  ELSE Append(p, <<k, x>>)

\* { ...a, ...b } for two property lists
RECURSIVE SpreadInto(_, _)
SpreadInto(p, q) ==
  IF q = <<>> THEN p
  ELSE SpreadInto(SetKey(p, q[1][1], q[1][2]), Tail(q))

\* The own enumerable properties a spread `...x` copies: those of an object,
\* the indices of an array or a string, none of null, undefined, a number or
\* a boolean.
SpreadProps(x) ==
  CASE x.t = "obj" -> x.p
    [] x.t = "arr" -> [i \in 1..Len(x.a) |-> <<NatToText(i - 1), x.a[i]>>]
    [] x.t = "str" -> [i \in 1..Len(x.s) |-> <<NatToText(i - 1), JStr(<<x.s[i]>>)>>]
    [] OTHER -> <<>>

(***************************************************************************)
(* JSON.parse, by recursive descent on the characters.  A result is        *)
(* [ok, v, i]: ok = FALSE is a thrown SyntaxError, i the index after the   *)
(* value.  Covered: objects, arrays, strings with the escapes \" \\ \/ \n  *)
(* \r \t, integers, true, false, null, and white space between tokens.     *)
(* (Fractions, exponents and \u escapes do not occur in the inputs.)       *)
(***************************************************************************)
ParseFail == [ok |-> FALSE, v |-> Undefined, i |-> 0]
ParseOk(x, i) == [ok |-> TRUE, v |-> x, i |-> i]

RECURSIVE SkipWs(_, _)
SkipWs(s, i) ==
  IF i <= Len(s) /\ s[i] \in WhiteSpace THEN SkipWs(s, i + 1) ELSE i

\* Whether the characters of w stand in s at index i.
LooksAt(s, i, w) == i + Len(w) - 1 <= Len(s) /\ SubSeq(s, i, i + Len(w) - 1) = w

\* The character an escape \c stands for; "" for an escape not covered.
Unescape(c) ==
  CASE c = "\"" -> "\"" [] c = "\\" -> "\\" [] c = "/" -> "/"
    [] c = "n" -> "\n" [] c = "r" -> "\r" [] c = "t" -> "\t"
    [] OTHER -> ""

\* The rest of a string literal after its opening quote.
RECURSIVE ParseStringTail(_, _, _)
ParseStringTail(s, i, acc) ==
  IF i > Len(s) THEN ParseFail
  ELSE IF s[i] = "\"" THEN ParseOk(JStr(acc), i + 1)
  ELSE IF s[i] \in {"\n", "\r", "\t"} THEN ParseFail
  ELSE IF s[i] = "\\"
       THEN IF i + 1 > Len(s) \/ Unescape(s[i + 1]) = "" THEN ParseFail
            ELSE ParseStringTail(s, i + 2, Append(acc, Unescape(s[i + 1])))
  ELSE ParseStringTail(s, i + 1, Append(acc, s[i]))

RECURSIVE ParseDigits(_, _, _)
ParseDigits(s, i, n) ==
  IF i <= Len(s) /\ s[i] \in DigitChars
  THEN ParseDigits(s, i + 1, 10 * n + DigitVal(s[i]))
  ELSE ParseOk(JNum(n), i)

\* An integer: no leading zero before another digit.
Negated(r) == ParseOk(JNum(0 - r.v.n), r.i)

ParseNumber(s, i) ==
  LET neg == s[i] = "-"
      j == IF neg THEN i + 1 ELSE i
  IN IF j > Len(s) \/ s[j] \notin DigitChars THEN ParseFail
     ELSE IF s[j] = "0" /\ j + 1 <= Len(s) /\ s[j + 1] \in DigitChars THEN ParseFail
     ELSE IF neg THEN Negated(ParseDigits(s, j, 0))
     ELSE ParseDigits(s, j, 0)

RECURSIVE ParseValue(_, _)
RECURSIVE ParseElements(_, _, _)
RECURSIVE ParseMembers(_, _, _)

ParseValue(s, i0) ==
  LET i == SkipWs(s, i0)
  IN IF i > Len(s) THEN ParseFail
     ELSE CASE s[i] = "{" ->
                 LET j == SkipWs(s, i + 1)
                 IN IF j <= Len(s) /\ s[j] = "}" THEN ParseOk(JObj(<<>>), j + 1)
                    ELSE ParseMembers(s, j, <<>>)
            [] s[i] = "[" ->
                 LET j == SkipWs(s, i + 1)
                 IN IF j <= Len(s) /\ s[j] = "]" THEN ParseOk(JArr(<<>>), j + 1)
                    ELSE ParseElements(s, j, <<>>)
            [] s[i] = "\"" -> ParseStringTail(s, i + 1, <<>>)
            [] s[i] = "-" \/ s[i] \in DigitChars -> ParseNumber(s, i)
            [] LooksAt(s, i, <<"t", "r", "u", "e">>) -> ParseOk(JBool(TRUE), i + 4)
            [] LooksAt(s, i, <<"f", "a", "l", "s", "e">>) -> ParseOk(JBool(FALSE), i + 5)
            [] LooksAt(s, i, <<"n", "u", "l", "l">>) -> ParseOk(JNull, i + 4)
            [] OTHER -> ParseFail

\* value ( "," value )* "]"
ParseElements(s, i, acc) ==
  LET r == ParseValue(s, i)
  IN IF ~r.ok THEN ParseFail
     ELSE LET j == SkipWs(s, r.i)
              acc2 == Append(acc, r.v)
          IN IF j > Len(s) THEN ParseFail
             ELSE IF s[j] = "]" THEN ParseOk(JArr(acc2), j + 1)
             ELSE IF s[j] = "," THEN ParseElements(s, j + 1, acc2)
             ELSE ParseFail

\* string ":" value ( "," string ":" value )* "}"
ParseMembers(s, i0, acc) ==
  LET i == SkipWs(s, i0)
  IN IF i > Len(s) \/ s[i] # "\"" THEN ParseFail
     ELSE LET k == ParseStringTail(s, i + 1, <<>>)
          IN IF ~k.ok THEN ParseFail
             ELSE LET c == SkipWs(s, k.i)
                  IN IF c > Len(s) \/ s[c] # ":" THEN ParseFail
                     ELSE LET r == ParseValue(s, c + 1)
                          IN IF ~r.ok THEN ParseFail
                             ELSE LET j == SkipWs(s, r.i)
                                      acc2 == SetKey(acc, k.v.s, r.v)
                                  IN IF j > Len(s) THEN ParseFail
                                     ELSE IF s[j] = "}" THEN ParseOk(JObj(acc2), j + 1)
                                     ELSE IF s[j] = "," THEN ParseMembers(s, j + 1, acc2)
                                     ELSE ParseFail

\* JSON.parse(text): [ok, v]; the whole text must be one value.
WholeValue(r, s) ==
  IF r.ok /\ SkipWs(s, r.i) > Len(s)
  THEN [ok |-> TRUE, v |-> r.v]
  ELSE [ok |-> FALSE, v |-> Undefined]

JSONparse(s) == WholeValue(ParseValue(s, 1), s)

(***************************************************************************)
(* JSON.stringify of a value without undefined members: the text a backend *)
(* produces for a value, and the request body the client sends.            *)
(***************************************************************************)
EscapeChar(c) ==
  CASE c = "\"" -> <<"\\", "\"">>
    [] c = "\\" -> <<"\\", "\\">>
    [] c = "\n" -> <<"\\", "n">>
    [] c = "\r" -> <<"\\", "r">>
    [] c = "\t" -> <<"\\", "t">>
    [] OTHER -> <<c>>

RECURSIVE EscapeText(_)
EscapeText(s) ==
  IF s = <<>> THEN <<>> ELSE EscapeChar(Head(s)) \o EscapeText(Tail(s))

Quote(s) == <<"\"">> \o EscapeText(s) \o <<"\"">>

RECURSIVE JSONstringify(_)
RECURSIVE StringifyAll(_)
RECURSIVE StringifyMembers(_)

JSONstringify(x) ==
  CASE x.t = "null" -> <<"n", "u", "l", "l">>
    [] x.t = "bool" -> IF x.b THEN <<"t", "r", "u", "e">> ELSE <<"f", "a", "l", "s", "e">>
    [] x.t = "num" -> IF x.n < 0 THEN <<"-">> \o NatToText(0 - x.n) ELSE NatToText(x.n)
    [] x.t = "str" -> Quote(x.s)
    [] x.t = "arr" -> <<"[">> \o Join(StringifyAll(x.a), <<",">>) \o <<"]">>
    [] x.t = "obj" -> <<"{">> \o Join(StringifyMembers(x.p), <<",">>) \o <<"}">>

StringifyAll(a) ==
  IF a = <<>> THEN <<>> ELSE <<JSONstringify(Head(a))>> \o StringifyAll(Tail(a))

StringifyMembers(p) ==
  IF p = <<>> THEN <<>>
  ELSE <<Quote(p[1][1]) \o <<":">> \o JSONstringify(p[1][2])>> \o StringifyMembers(Tail(p))

(***************************************************************************)
(* String conversion of a value: what `aiTextAccumulator += chunk` appends.*)
(***************************************************************************)
RECURSIVE ToText(_)
RECURSIVE AllToText(_)

ToText(x) ==
  CASE x.t = "str" -> x.s
    [] x.t = "num" -> IF x.n < 0 THEN <<"-">> \o NatToText(0 - x.n) ELSE NatToText(x.n)
    [] x.t = "bool" -> IF x.b THEN <<"t", "r", "u", "e">> ELSE <<"f", "a", "l", "s", "e">>
    [] x.t = "null" -> <<"n", "u", "l", "l">>
    [] x.t = "undef" -> <<"u", "n", "d", "e", "f", "i", "n", "e", "d">>
    [] x.t = "arr" -> Join(AllToText(x.a), <<",">>)
    [] x.t = "obj" -> <<"[", "o", "b", "j", "e", "c", "t", " ", "O", "b", "j", "e", "c", "t", "]">>

\* Array.prototype.join writes null and undefined elements as "".
AllToText(a) ==
  IF a = <<>> THEN <<>>
  ELSE <<IF Nullish(Head(a)) THEN <<>> ELSE ToText(Head(a))>> \o AllToText(Tail(a))

(***************************************************************************)
(* The SSE decoder of chatWithDocumentStream (completion-compatible path). *)
(***************************************************************************)
KChoices == <<"c", "h", "o", "i", "c", "e", "s">>
KDelta == <<"d", "e", "l", "t", "a">>
KContent == <<"c", "o", "n", "t", "e", "n", "t">>

DataPrefix == <<"d", "a", "t", "a", ":", " ">>
DoneSentinel == <<"[", "D", "O", "N", "E", "]">>

\* x?.[0] and x?.key
OptAt(x, i) ==
  IF Nullish(x) THEN Undefined
  ELSE IF x.t = "obj" THEN Get(x, NatToText(i)) ELSE At(x, i)

OptGet(x, k) == IF Nullish(x) THEN Undefined ELSE Get(x, k)

\* json.choices?.[0]?.delta?.content: [ok, v]; ok = FALSE is the TypeError of
\* reading .choices of null.
DeltaContent(json) ==
  IF Nullish(json) THEN [ok |-> FALSE, v |-> Undefined]
  ELSE [ok |-> TRUE,
        v |-> OptGet(OptGet(OptAt(Get(json, KChoices), 0), KDelta), KContent)]

LineSkip == [kind |-> "skip", token |-> Undefined]
LineReturn == [kind |-> "return", token |-> Undefined]
LineYield(x) == [kind |-> "yield", token |-> x]

\* One pass of the body of `for (const line of lines)`: the line is skipped,
\* yields a token, or (the sentinel) returns from the generator.
\* Variant: yields whatever the content, without the test `if (content)`.
YieldUntested(content) == LineYield(content.v)

\*   const content = json.choices?.[0]?.delta?.content; if (content) yield content;
ProcessContent(content) ==
  IF content.ok /\ Truthy(content.v) THEN LineYield(content.v) ELSE LineSkip

\* Variant: a payload that does not parse ends the stream.
ProcessJsonOrEnd(json) ==
  IF ~json.ok THEN LineReturn ELSE ProcessContent(DeltaContent(json.v))

\*   try { const json = JSON.parse(dataStr); ... } catch (e) { /* ignore */ }
ProcessJson(json) ==
  IF ~json.ok THEN LineSkip ELSE ProcessContent(DeltaContent(json.v))

\*   const dataStr = trimmed.slice(6); if (dataStr === "[DONE]") return;
ProcessData(dataStr) ==
  IF dataStr = DoneSentinel THEN LineReturn ELSE ProcessJson(JSONparse(dataStr))

\*   if (trimmed.startsWith("data: ")) { ... }
ProcessTrimmed(trimmed) ==
  IF ~StartsWith(trimmed, DataPrefix) THEN LineSkip
  ELSE ProcessData(Slice(trimmed, 6))

\*   const trimmed = line.trim();
ProcessLine(line) == ProcessTrimmed(Trim(line))

\* The for loop over the complete lines of one chunk, to its end or to the
\* return at the sentinel: the tokens yielded, and whether it returned.
PrependToken(r, d) ==
  [tokens |-> (IF r.kind = "yield" THEN <<r.token>> ELSE <<>>) \o d.tokens,
   returned |-> d.returned]

RECURSIVE DecodeLines(_)

\* Variant: the sentinel line is passed over like any other line.
DecodePastSentinel(r, rest) == PrependToken(r, DecodeLines(rest))

\* r: what the first line did; rest: the lines after it.
DecodeFrom(r, rest) ==
  IF r.kind = "return" THEN [tokens |-> <<>>, returned |-> TRUE]
  ELSE PrependToken(r, DecodeLines(rest))

DecodeLines(ls) ==
  IF ls = <<>> THEN [tokens |-> <<>>, returned |-> FALSE]
  ELSE DecodeFrom(ProcessLine(Head(ls)), Tail(ls))

\* const lines = buffer.split("\n"): ls.  buffer = lines.pop() || "" leaves
\* the lines before the last in `lines` and the last in `buffer`.
PendingLines(ls) == SubSeq(ls, 1, Len(ls) - 1)

\* Variant: the incomplete last line is dropped instead of kept.
BufferDropped(ls) == <<>>

NextBuffer(ls) == ls[Len(ls)]

ChunkResult(b, d) == [buffer |-> b, tokens |-> d.tokens, returned |-> d.returned]

DecodeSplit(ls) == ChunkResult(NextBuffer(ls), DecodeLines(PendingLines(ls)))

\* One pass of the while loop for a delivered chunk: buffer += chunk, ...
DecodeChunk(buf, chunk) == DecodeSplit(Split(buf \o chunk))

\* The error tokens of the generator.
ErrorConnecting ==
  JStr(<<"E", "r", "r", "o", "r", " ", "c", "o", "n", "n", "e", "c", "t", "i", "n", "g",
         " ", "t", "o", " ", "A", "P", "I", ".">>)

\* "Error: " + e.message
ErrorToken(message) == JStr(<<"E", "r", "r", "o", "r", ":", " ">> \o message)

\* Variant: no catch block, the rejection leaves the generator.
Propagated(message) == [tokens |-> <<>>, pc |-> "threw"]

\* A rejected await inside the generator's try block: the catch block yields
\* the error as text and the generator ends.  "threw" would be the exception
\* leaving the generator.
Caught(message) == [tokens |-> <<ErrorToken(message)>>, pc |-> "failed"]

(***************************************************************************)
(* The analyzers (services/geminiService.ts).  A call that throws is       *)
(* [ok |-> FALSE], one that returns x is [ok |-> TRUE, v |-> x].           *)
(***************************************************************************)
Thrown == [ok |-> FALSE, v |-> Undefined]
Returned(x) == [ok |-> TRUE, v |-> x]

KTitle == <<"t", "i", "t", "l", "e">>
KSummary == <<"s", "u", "m", "m", "a", "r", "y">>
KId == <<"i", "d">>

\* The three backquotes of a markdown fence; a backquote is written ' in the
\* texts of this module.
Fence == <<"'", "'", "'">>
JsonLabel == <<"j", "s", "o", "n">>

\* s.indexOf(p) + 1: the place of the first occurrence of p in s, 0 if none.
IndexOf(s, p) ==
  LET at == {i \in 1..(Len(s) - Len(p) + 1) : SubSeq(s, i, i + Len(p) - 1) = p}
  IN IF at = {} THEN 0 ELSE CHOOSE i \in at : \A j \in at : i <= j

\* cleaned.match(/```(?:json)?([\s\S]*?)```/) on a text that starts with the
\* fence: rest is the text after the opening fence and the optional label;
\* the match is up to the next fence, and there is none without one.
FenceMatch(rest, at) ==
  IF at = 0 THEN [matched |-> FALSE, group |-> <<>>]
  ELSE [matched |-> TRUE, group |-> SubSeq(rest, 1, at - 1)]

AfterLabel(rest) == IF StartsWith(rest, JsonLabel) THEN Slice(rest, 4) ELSE rest

FenceClose(rest) == FenceMatch(rest, IndexOf(rest, Fence))

\* if (matches && matches[1]) cleaned = matches[1].trim()
Unfenced(cleaned, matches) ==
  IF matches.matched /\ matches.group # <<>> THEN Trim(matches.group) ELSE cleaned

Cleaned(cleaned) ==
  IF StartsWith(cleaned, Fence)
  THEN Unfenced(cleaned, FenceClose(AfterLabel(Slice(cleaned, 3))))
  ELSE cleaned

\* extractJson(text): [ok, v], ok = FALSE when JSON.parse throws.
extractJson(text) == JSONparse(Cleaned(Trim(text)))

\* Variant: the record is passed on as it came.
KeepRecord(r) == r

\* (r) => ({ ...r, content: "" })
ClearContent(r) == JObj(SetKey(SpreadProps(r), KContent, JStr(<<>>)))

\* return keepOriginal ? result : result.map(...); .map of a value that is no
\* array throws.
GoogleResult(result, keepOriginal) ==
  IF keepOriginal THEN Returned(result)
  ELSE IF IsArray(result)
       THEN Returned(JArr([i \in 1..Len(result.a) |-> ClearContent(result.a[i])]))
       ELSE Thrown

GoogleParsed(parsed, keepOriginal) ==
  IF parsed.ok THEN GoogleResult(parsed.v, keepOriginal) ELSE Thrown

\* analyzeWithGoogle after generateContent resolved with response.text = jsonText.
analyzeWithGoogle(jsonText, keepOriginal) ==
  IF ~Truthy(jsonText) THEN Thrown
  ELSE GoogleParsed(JSONparse(jsonText.s), keepOriginal)

\* An integer-like key ("0", "12"): Object.keys lists these first, ascending.
IsIndexKey(k) ==
  /\ k # <<>>
  /\ \A i \in 1..Len(k) : k[i] \in DigitChars
  /\ (Len(k) = 1 \/ k[1] # "0")

RECURSIVE TextToNat(_)
TextToNat(k) ==
  IF k = <<>> THEN 0
  ELSE 10 * TextToNat(SubSeq(k, 1, Len(k) - 1)) + DigitVal(k[Len(k)])

\* The place of p[i] in Object.keys: index keys by value, then the other keys
\* in the order they were defined.
KeyRank(p, i) ==
  IF IsIndexKey(p[i][1])
  THEN 1 + Cardinality({j \in 1..Len(p) :
                 IsIndexKey(p[j][1]) /\ TextToNat(p[j][1]) < TextToNat(p[i][1])})
  ELSE Cardinality({j \in 1..Len(p) : IsIndexKey(p[j][1])})
       + Cardinality({j \in 1..i : ~IsIndexKey(p[j][1])})

\* Object.keys(x) of a value that is not null or undefined.
ObjectKeys(x) ==
  [r \in 1..Len(SpreadProps(x)) |->
     SpreadProps(x)[CHOOSE i \in 1..Len(SpreadProps(x)) : KeyRank(SpreadProps(x), i) = r][1]]

\* x[k] for a key of Object.keys(x)
Prop(x, k) ==
  SpreadProps(x)[CHOOSE i \in 1..Len(SpreadProps(x)) : SpreadProps(x)[i][1] = k][2]

\* Variant: the loop without its break, so the last array-valued key wins.
RECURSIVE LastArray(_, _)
LastArray(parsed, keys) ==
  IF keys = <<>> THEN parsed
  ELSE IF IsArray(Prop(parsed, keys[Len(keys)])) THEN Prop(parsed, keys[Len(keys)])
  ELSE LastArray(parsed, SubSeq(keys, 1, Len(keys) - 1))

\* for (const k of keys) { if (Array.isArray(parsed[k])) { parsed = parsed[k]; break; } }
RECURSIVE FirstArray(_, _)
FirstArray(parsed, keys) ==
  IF keys = <<>> THEN parsed
  ELSE IF IsArray(Prop(parsed, Head(keys))) THEN Prop(parsed, Head(keys))
  ELSE FirstArray(parsed, Tail(keys))

NoTitle == JStr(<<"N", "o", " ", "T", "i", "t", "l", "e">>)
NoSummary == JStr(<<"N", "o", " ", "S", "u", "m", "m", "a", "r", "y">>)

\* Variant: the content is empty whatever was asked.
NoContent(item, keepOriginal) == JStr(<<>>)

\* content: keepOriginal ? (item.content || "") : ""
ItemContent(item, keepOriginal) ==
  IF keepOriginal THEN OrElse(Get(item, KContent), JStr(<<>>)) ELSE JStr(<<>>)

\* Variant: the fields are copied as they are.
CopyFields(item, keepOriginal) ==
  JObj(<< <<KTitle, Get(item, KTitle)>>, <<KSummary, Get(item, KSummary)>>,
          <<KContent, ItemContent(item, keepOriginal)>> >>)

\* (item) => ({ title: item.title || "No Title", summary: ..., content: ... })
Sanitize(item, keepOriginal) ==
  JObj(<< <<KTitle, OrElse(Get(item, KTitle), NoTitle)>>,
          <<KSummary, OrElse(Get(item, KSummary), NoSummary)>>,
          <<KContent, ItemContent(item, keepOriginal)>> >>)

\* parsed.map(...): reading item.title of null throws.
SanitizeAll(parsed, keepOriginal) ==
  IF \E i \in 1..Len(parsed.a) : Nullish(parsed.a[i]) THEN Thrown
  ELSE Returned(JArr([i \in 1..Len(parsed.a) |-> Sanitize(parsed.a[i], keepOriginal)]))

\* Variant: a value that is no array counts as an empty array.
TolerantArray(parsed, keepOriginal) ==
  IF IsArray(parsed) THEN SanitizeAll(parsed, keepOriginal) ELSE Returned(JArr(<<>>))

\* if (!Array.isArray(parsed)) throw ...
OpenAIArray(parsed, keepOriginal) ==
  IF IsArray(parsed) THEN SanitizeAll(parsed, keepOriginal) ELSE Thrown

\* The compatibility fix; Object.keys(null) throws.
OpenAIValue(parsed, keepOriginal) ==
  IF IsArray(parsed) THEN SanitizeAll(parsed, keepOriginal)
  ELSE IF Nullish(parsed) THEN Thrown
  ELSE OpenAIArray(FirstArray(parsed, ObjectKeys(parsed)), keepOriginal)

OpenAIParsed(parsed, keepOriginal) ==
  IF parsed.ok THEN OpenAIValue(parsed.v, keepOriginal) ELSE Thrown

\* analyzeWithOpenAI after response.json() resolved, with
\* content = data.choices?.[0]?.message?.content.
analyzeWithOpenAI(content, keepOriginal) ==
  IF ~Truthy(content) THEN Thrown
  ELSE OpenAIParsed(extractJson(ToText(content)), keepOriginal)

\* generateTitle: the title trimmed, a fixed title when it is empty or missing,
\* another when the request (or .trim of a title that is no string) throws;
\* both are Chinese in the source.
Untitled == <<"(", "u", "n", "t", "i", "t", "l", "e", "d", ")">>
NewDocumentTitle == <<"(", "n", "e", "w", ")">>

generateTitle(res) ==
  IF res.status = "throws" THEN NewDocumentTitle
  ELSE IF Nullish(res.text) THEN Untitled
  ELSE IF res.text.t # "str" THEN NewDocumentTitle
  ELSE IF Trim(res.text.s) = <<>> THEN Untitled
  ELSE Trim(res.text.s)

(***************************************************************************)
(* Bounds of the model.                                                    *)
(***************************************************************************)
\* Longest chunk the transport delivers short of "all the rest at once".
MaxChunk == 3
\* Most events in one SSE response.
MaxEvents == 2
\* Most chunks in one response of the structured (google) stream.
MaxGoogleChunks == 2
\* Most records in the array an analysis backend returns.
MaxRecords == 2

(***************************************************************************)
(* The backend's side of a chat request: what it is going to answer.       *)
(* An SSE response is a sequence of events, rendered to text as the wire   *)
(* format of the protocol has them.                                        *)
(***************************************************************************)
NL == <<"\n">>
CRLF == <<"\r", "\n">>

TextHi == <<"H", "i">>
TextB == <<"B">>

\* data: {"choices":[{"delta":{"content":<c>}}]}
DeltaFrame(c) ==
  DataPrefix \o JSONstringify(
    JObj(<< <<KChoices, JArr(<< JObj(<< <<KDelta, JObj(<< <<KContent, c>> >>)>> >>) >>)>> >>))

Events ==
  { [k |-> "delta", c |-> JStr(TextHi)],   \* a frame with content "Hi"
    [k |-> "crlf", c |-> JStr(TextB)],     \* a frame with content "B", lines ended \r\n
    [k |-> "empty", c |-> JStr(<<>>)],     \* a frame whose content is ""
    [k |-> "bad", c |-> Undefined],        \* data: not-json
    [k |-> "partial", c |-> JStr(<<"Z">>)],\* a frame with content "Z" and no line end
    [k |-> "done", c |-> Undefined] }      \* data: [DONE]

\* The first line of an event, without its line end.
EventLine(e) ==
  CASE e.k \in {"delta", "crlf", "empty", "partial"} -> DeltaFrame(e.c)
    [] e.k = "bad" -> <<"d", "a", "t", "a", ":", " ", "n", "o", "t", "-", "j", "s", "o", "n">>
    [] e.k = "done" -> DataPrefix \o DoneSentinel

\* An event on the wire: its line and the blank line that ends it; a partial
\* event is cut off before its line end.
EventText(e) ==
  CASE e.k = "crlf" -> EventLine(e) \o CRLF \o CRLF
    [] e.k = "partial" -> EventLine(e)
    [] OTHER -> EventLine(e) \o NL \o NL

RECURSIVE EventsText(_)
EventsText(es) ==
  IF es = <<>> THEN <<>> ELSE EventText(Head(es)) \o EventsText(Tail(es))

EvHi == [k |-> "delta", c |-> JStr(TextHi)]
EvB == [k |-> "crlf", c |-> JStr(TextB)]
EvBad == [k |-> "bad", c |-> Undefined]
EvDone == [k |-> "done", c |-> Undefined]

\* The responses of the protocol description: a reply and the sentinel; a
\* malformed line between two valid frames; a frame after the sentinel.
SampleResponses ==
  { <<EvHi, EvDone>>, <<EvHi, EvBad, EvB>>, <<EvHi, EvBad, EvB, EvDone>>,
    <<EvHi, EvDone, EvB>> }

EventSeqs == UNION {[1..n -> Events] : n \in 0..MaxEvents} \cup SampleResponses

NetworkErrorMessage ==
  <<"F", "a", "i", "l", "e", "d", " ", "t", "o", " ", "f", "e", "t", "c", "h">>

SseBackends ==
  { [status |-> "ok", events |-> es, text |-> EventsText(es), chunks |-> <<>>] :
      es \in EventSeqs }
  \cup
  { [status |-> st, events |-> <<>>, text |-> <<>>, chunks |-> <<>>] :
      st \in {"bad_status", "no_body", "throws"} }

\* chunk.text of the chunks of a provider-native stream.
GoogleChunkTexts == {JStr(TextHi), JStr(TextB), JStr(<<>>), Undefined}

GoogleBackends ==
  { [status |-> "ok", events |-> <<>>, text |-> <<>>, chunks |-> cs] :
      cs \in UNION {[1..n -> GoogleChunkTexts] : n \in 0..MaxGoogleChunks} }
  \cup
  { [status |-> "throws", events |-> <<>>, text |-> <<>>, chunks |-> <<>>] }

(***************************************************************************)
(* The backend's side of an analysis request.  records is the array the    *)
(* backend means to return, text the response text that carries it.        *)
(***************************************************************************)
TextT == JStr(<<"T">>)
TextU == JStr(<<"U">>)
TextS == JStr(<<"S">>)
TextC == JStr(<<"C">>)

RecFull == JObj(<< <<KTitle, TextT>>, <<KSummary, TextS>>, <<KContent, TextC>> >>)
RecNoContent == JObj(<< <<KTitle, TextU>>, <<KSummary, TextS>> >>)
RecEmptyContent ==
  JObj(<< <<KTitle, TextT>>, <<KSummary, TextS>>, <<KContent, JStr(<<>>)>> >>)
RecWithId ==
  JObj(<< <<KId, JStr(<<"x">>)>>, <<KTitle, TextT>>, <<KSummary, TextS>>,
          <<KContent, TextC>> >>)
RecEmptyTitle ==
  JObj(<< <<KTitle, JStr(<<>>)>>, <<KSummary, TextS>>, <<KContent, TextC>> >>)

\* A record with neither title nor summary.
RecBare == JObj(<< <<KContent, TextC>> >>)

Records ==
  {RecFull, RecNoContent, RecEmptyContent, RecWithId, RecEmptyTitle, RecBare, JNull}

RecordSeqs == UNION {[1..n -> Records] : n \in 0..MaxRecords}

AnalysisOk(rs, text) == [status |-> "ok", records |-> rs, text |-> text]

SampleRecords == <<RecFull, RecNoContent>>

KSegments == <<"s", "e", "g", "m", "e", "n", "t", "s">>

\* A response in a markdown fence, with or without the `json` label.
Fenced(label, text) == Fence \o label \o <<"\n">> \o text \o <<"\n">> \o Fence

KChapters == <<"c", "h", "a", "p", "t", "e", "r", "s">>
KLater == <<"l", "a", "t", "e", "r">>
KNote == <<"n", "o", "t", "e">>

RecAB == JObj(<< <<KTitle, JStr(<<"A">>)>>, <<KSummary, JStr(<<"B">>)>> >>)

\* Objects that hold the record array under a key: {"chapters":[A/B]} alone,
\* and after a property that is no array and before a second array.
WrappedBackends ==
  { AnalysisOk(<<RecAB>>, JStr(JSONstringify(JObj(<< <<KChapters, JArr(<<RecAB>>)>> >>)))),
    AnalysisOk(<<RecAB>>,
      JStr(JSONstringify(JObj(<< <<KNote, TextT>>, <<KChapters, JArr(<<RecAB>>)>>,
                                 <<KLater, JArr(<<RecFull, RecFull>>)>> >>)))) }

\* Valid JSON that is neither an array nor an object: 7, "ab", true.
ScalarBackends ==
  { AnalysisOk(<<>>, JStr(JSONstringify(x))) : x \in {JNum(7), JStr(<<"a", "b">>), JBool(TRUE)} }

AnalysisBackends ==
  { AnalysisOk(rs, JStr(JSONstringify(JArr(rs)))) : rs \in RecordSeqs }
  \cup WrappedBackends \cup ScalarBackends \cup
  { AnalysisOk(SampleRecords, JStr(Fenced(label, JSONstringify(JArr(SampleRecords))))) :
      label \in {<<>>, JsonLabel} }
  \cup
  { \* the array under a wrapper key; Object.keys lists the key "1" before "b"
    AnalysisOk(SampleRecords,
      JStr(JSONstringify(JObj(<< <<KSegments, JArr(SampleRecords)>> >>)))),
    AnalysisOk(<<RecFull>>,
      JStr(JSONstringify(JObj(<< <<<<"b">>, JArr(<<RecNoContent>>)>>,
                                 <<<<"1">>, JArr(<<RecFull>>)>> >>)))),
    \* no array at all, no JSON, no text
    AnalysisOk(<<>>, JStr(JSONstringify(JObj(<< <<KTitle, TextT>> >>)))),
    AnalysisOk(<<>>, JStr(JSONstringify(JNull))),
    AnalysisOk(<<>>, JStr(<<"n", "o", "t", "-", "j", "s", "o", "n">>)),
    AnalysisOk(<<>>, Undefined),
    [status |-> "bad_status", records |-> <<>>, text |-> Undefined],
    [status |-> "throws", records |-> <<>>, text |-> Undefined] }

\* What a title request may answer.
TitleResults ==
  { [status |-> "ok", text |-> JStr(<<" ", "M", "y", " ">>)],
    [status |-> "ok", text |-> Undefined],
    [status |-> "throws", text |-> Undefined] }

\* analyzeText(text, { settings, keepOriginal }) given the backend's response.
analyzeText(text, s, keep, response) ==
  IF Trim(text) = <<>> THEN Returned(JArr(<<>>))
  ELSE IF s.provider # "google" /\ s.openaiApiKey = <<>> THEN Thrown
  ELSE IF response.status # "ok" THEN Thrown
  ELSE IF s.provider = "google" THEN analyzeWithGoogle(response.text, keep)
  ELSE analyzeWithOpenAI(response.text, keep)

\* Variant: the key is not looked at before the request.
SettlesOnEmptyText(text, s) == Trim(text) = <<>>

\* analyzeText settles without a request: an empty text, or a missing key.
SettlesAtOnce(text, s) ==
  Trim(text) = <<>> \/ (s.provider # "google" /\ s.openaiApiKey = <<>>)

(***************************************************************************)
(* State.                                                                  *)
(***************************************************************************)
VARIABLES
  settings,           \* AppSettings: provider, openaiApiKey
  backend,            \* what the chat backend answers to a request
  projects,           \* App: the project list
  currentProjectId,   \* App: an id, or Null
  currentDocumentId,  \* App: an id, or Null
  viewMode,           \* App: "dashboard" or "document"
  nextId,             \* number of createId calls made
  tempChatHistory,    \* DocumentView: chat history while no document exists
  isChatSending,      \* DocumentView
  thinkingMessageId,  \* DocumentView: an id, or Null
  send,               \* the running handleSendMessage: its closure and locals
  pc,                 \* chatWithDocumentStream: where the generator stands
  pos,                \* characters (chunks, for google) of the response delivered
  buffer,             \* chatWithDocumentStream: let buffer
  tokens,             \* the tokens the generator has yielded
  inputText,          \* DocumentView
  keepOriginal,       \* DocumentView
  isProcessing,       \* DocumentView
  abackend,           \* what the analysis backend answers to a request
  proc,               \* the last handleProcess call: its closure
  ppc,                \* handleProcess: where it stands
  segmentsData,       \* handleProcess: const segmentsData
  alerts,             \* number of alert() calls
  requests,           \* the network requests issued so far, by kind
  sent,               \* the message list of the last chat request
  detached,           \* sends still running in unmounted DocumentViews
  xin,                \* extractJson: the array a backend serialised, and its text
  xout,               \* extractJson: its result
  clock,              \* Date.now()
  users,              \* authService: the user list in localStorage
  regs                \* authService: the registerUser calls, each with its locals

appVars == <<settings, projects, currentProjectId, currentDocumentId, viewMode,
             nextId, tempChatHistory>>

chatVars == <<backend, isChatSending, thinkingMessageId, send, pc, pos, buffer, tokens>>

analysisVars == <<inputText, keepOriginal, isProcessing, abackend, proc, ppc,
                  segmentsData, alerts>>

requestVars == <<requests, sent>>

extractVars == <<xin, xout>>

authVars == <<users, regs>>

\* null, for an id or an object reference held as a sequence of at most one.
Null == <<>>
NoSend == <<>>

\* createId(): a new id at every call (the n-th call's id).
createId(n) == <<"i", "d">> \o NatToText(n)

\* App: const currentProject / currentDocument, as sequences of at most one.
currentProject ==
  SelectSeq(projects, LAMBDA p : p.id = currentProjectId)

currentDocument ==
  IF currentProject = <<>> THEN <<>>
  ELSE SelectSeq(currentProject[1].documents, LAMBDA d : d.id = currentDocumentId)

\* DocumentView is rendered (App.tsx 157-171).
DocumentViewMounted == viewMode = "document" /\ currentProject # <<>>

\* const activeChatHistory = document ? (document.chatHistory || []) : tempChatHistory
activeChatHistory ==
  IF currentDocument # <<>> THEN currentDocument[1].chatHistory ELSE tempChatHistory

\* App.handleUpdateDocument on the project list ps of its closure.
handleUpdateDocument(ps, projectId, updatedDoc) ==
  [i \in 1..Len(ps) |->
     IF ps[i].id = projectId
     THEN [ps[i] EXCEPT !.documents =
             [j \in 1..Len(ps[i].documents) |->
                IF ps[i].documents[j].id = updatedDoc.id
                THEN updatedDoc ELSE ps[i].documents[j]]]
     ELSE ps[i]]

\* Variant: aiTextAccumulator = chunk.
Overwrite(acc, chunk) == ToText(chunk)

\* Variant: aiTextAccumulator = chunk + aiTextAccumulator.
Prepended(acc, chunk) == ToText(chunk) \o acc

\* aiTextAccumulator += chunk
Accumulate(acc, chunk) == acc \o ToText(chunk)

\* Variant: runningHistory.map(m => m.role === 'model' ? { ...m, text } : m)
SetTextOfModel(history, id, text) ==
  [i \in 1..Len(history) |->
     IF history[i].role = "model" THEN [history[i] EXCEPT !.text = text] ELSE history[i]]

\* runningHistory.map(m => m.id === aiMsgId ? { ...m, text } : m)
SetText(history, id, text) ==
  [i \in 1..Len(history) |->
     IF history[i].id = id THEN [history[i] EXCEPT !.text = text] ELSE history[i]]

\* The body of `for await (const chunk of stream)` run for each of toks in
\* turn, on the locals s of handleSendMessage.
WithText(s, acc) ==
  [s EXCEPT !.aiTextAccumulator = acc,
            !.runningHistory = SetText(s.runningHistory, s.aiMsgId, acc)]

RECURSIVE Deliver(_, _)
Deliver(s, toks) ==
  IF toks = <<>> THEN s
  ELSE Deliver(WithText(s, Accumulate(s.aiTextAccumulator, Head(toks))), Tail(toks))

(***************************************************************************)
(* handleSendMessage and chatWithDocumentStream.                           *)
(*                                                                         *)
(* One action is one task of the event loop: a user event, or the arrival  *)
(* of a network result together with everything the generator and the      *)
(* `for await` body of its consumer do before the next await on the        *)
(* network.  pc is the generator's position:                               *)
(*   "idle"      not called yet (a behaviour follows one call)             *)
(*   "fetch"     awaiting fetch / generateContentStream                    *)
(*   "read"      awaiting reader.read() / the next chunk of the stream     *)
(*   "returned"  ended at the sentinel or at the end of the stream         *)
(*   "failed"    ended after yielding an error text                        *)
(***************************************************************************)
Ended(p) == p \in {"returned", "failed", "threw"}

\* The fixed text the consumer's catch block puts in place of the reply (a
\* Chinese sentence in the source; it starts with none of the token texts).
Apology == <<"(", "a", "p", "o", "l", "o", "g", "y", ")">>

\* catch (error) { runningHistory = runningHistory.map(...) }
Recover(s) == [s EXCEPT !.runningHistory = SetText(s.runningHistory, s.aiMsgId, Apology)]

\* The locals after the loop body ran for each of toks, and the catch block
\* if the generator threw.
Consume(s, toks, newPc) ==
  IF newPc = "threw" THEN Recover(Deliver(s, toks)) ELSE Deliver(s, toks)

\* The history is handed to the store: once per token, and in the catch block.
Writes(toks, newPc) == toks # <<>> \/ newPc = "threw"

\* The generator yields toks in turn and then stands at newPc; the consumer's
\* loop body runs for each token, and its `finally` when the generator ended.
\* s: the locals of handleSendMessage before, s2: after.
EmitTo(s, s2, toks, newPc) ==
  /\ tokens' = tokens \o toks
  /\ pc' = newPc
  /\ projects' =
       IF Writes(toks, newPc) /\ s.document # <<>>
       THEN handleUpdateDocument(s.projects, s.projectId,
              [s.document[1] EXCEPT !.chatHistory = s2.runningHistory])
       ELSE projects
  /\ tempChatHistory' =
       IF Writes(toks, newPc) /\ s.document = <<>> THEN s2.runningHistory ELSE tempChatHistory
  /\ thinkingMessageId' =
       IF Ended(newPc) \/ (toks # <<>> /\ s.thinkingMessageId = s.aiMsgId)
       THEN Null ELSE thinkingMessageId
  /\ isChatSending' = IF Ended(newPc) THEN FALSE ELSE isChatSending
  /\ send' = IF Ended(newPc) THEN NoSend ELSE <<s2>>

Emit(toks, newPc) == EmitTo(send[1], Consume(send[1], toks, newPc), toks, newPc)

ChatInputs == {<<"?">>, <<" ">>}

\* The context preamble of chatWithDocumentStream: the text before and after
\* the chapter list, and the text used while there is no document.
ContextHead ==
  <<"Y", "o", "u", " ", "a", "r", "e", " ", "a", " ", "h", "e", "l", "p", "f", "u",
    "l", " ", "A", "I", " ", "a", "s", "s", "i", "s", "t", "a", "n", "t", ".", " ",
    "T", "h", "e", " ", "u", "s", "e", "r", " ", "i", "s", " ", "r", "e", "a", "d",
    "i", "n", "g", " ", "a", " ", "d", "o", "c", "u", "m", "e", "n", "t", " ", "o",
    "r", "g", "a", "n", "i", "z", "e", "d", " ", "i", "n", "t", "o", " ", "c", "h",
    "a", "p", "t", "e", "r", "s", ".", "\n", " ", " ", " ", " ", " ", " ", "H", "e",
    "r", "e", " ", "i", "s", " ", "t", "h", "e", " ", "s", "t", "r", "u", "c", "t",
    "u", "r", "e", " ", "a", "n", "d", " ", "s", "u", "m", "m", "a", "r", "y", " ",
    "o", "f", " ", "t", "h", "e", " ", "d", "o", "c", "u", "m", "e", "n", "t", ":",
    "\n", " ", " ", " ", " ", " ", " ">>

ContextTail ==
  <<"\n", " ", " ", " ", " ", " ", " ", "A", "n", "s", "w", "e", "r", " ", "t", "h",
    "e", " ", "u", "s", "e", "r", "'", "s", " ", "q", "u", "e", "s", "t", "i", "o",
    "n", " ", "b", "a", "s", "e", "d", " ", "o", "n", " ", "t", "h", "i", "s", " ",
    "c", "o", "n", "t", "e", "x", "t", ".", " ", "A", "n", "s", "w", "e", "r", " ",
    "i", "n", " ", "C", "h", "i", "n", "e", "s", "e", " ", "(", "S", "i", "m", "p",
    "l", "i", "f", "i", "e", "d", ")", ".">>

ContextNoDocument ==
  <<"Y", "o", "u", " ", "a", "r", "e", " ", "a", " ", "h", "e", "l", "p", "f", "u",
    "l", " ", "A", "I", " ", "a", "s", "s", "i", "s", "t", "a", "n", "t", " ", "f",
    "o", "r", " ", "t", "h", "e", " ", "'", "C", "o", "n", "t", "e", "x", "t", " ",
    "B", "o", "o", "k", "'", " ", "a", "p", "p", ".", " ", "\n", " ", " ", " ", " ",
    " ", " ", "T", "h", "e", " ", "u", "s", "e", "r", " ", "h", "a", "s", " ", "n",
    "o", "t", " ", "p", "r", "o", "c", "e", "s", "s", "e", "d", " ", "a", " ", "d",
    "o", "c", "u", "m", "e", "n", "t", " ", "y", "e", "t", ".", " ", "G", "u", "i",
    "d", "e", " ", "t", "h", "e", "m", " ", "t", "o", " ", "p", "a", "s", "t", "e",
    " ", "t", "e", "x", "t", " ", "t", "o", " ", "g", "e", "n", "e", "r", "a", "t",
    "e", " ", "a", " ", "b", "o", "o", "k", ".", " ", "A", "n", "s", "w", "e", "r",
    " ", "i", "n", " ", "C", "h", "i", "n", "e", "s", "e", " ", "(", "S", "i", "m",
    "p", "l", "i", "f", "i", "e", "d", ")", ".">>

\* `Chapter ${i+1}: ${s.title}\nSummary: ${s.summary}` for the segment s at index i - 1
ChapterLine(s, i) ==
  <<"C", "h", "a", "p", "t", "e", "r", " ">> \o NatToText(i) \o <<":", " ">>
    \o ToText(Get(s, KTitle)) \o <<"\n", "S", "u", "m", "m", "a", "r", "y", ":", " ">>
    \o ToText(Get(s, KSummary))

\* doc.segments.map(...).join("\n\n")
contextMap(doc) ==
  Join([i \in 1..Len(doc.segments) |-> ChapterLine(doc.segments[i], i)], <<"\n", "\n">>)

Context(doc) ==
  IF doc # <<>> THEN ContextHead \o contextMap(doc[1]) \o ContextTail
  ELSE ContextNoDocument

\* history.map(m => ({ role: m.role, content: m.text })), and the same with
\* parts: [{ text: m.text }] for the provider-native backend.
HistoryMessages(history) ==
  [i \in 1..Len(history) |-> [role |-> history[i].role, text |-> history[i].text]]

\* Variant: the new user message ahead of the history.
MessagesNewestFirst(context, history, userMessage) ==
  <<[role |-> "system", text |-> context], [role |-> "user", text |-> userMessage]>>
    \o HistoryMessages(history)

\* const messages = [{ role: "system", content: context }, ...history.map(...),
\*                   { role: "user", content: userMessage }]
OpenAIMessages(context, history, userMessage) ==
  <<[role |-> "system", text |-> context]>> \o HistoryMessages(history)
    \o <<[role |-> "user", text |-> userMessage]>>

\* contents: [{ role: 'user', parts: [{ text: context }] }, ...conversationHistory,
\*            { role: 'user', parts: [{ text: userMessage }] }]
GoogleContents(context, history, userMessage) ==
  <<[role |-> "user", text |-> context]>> \o HistoryMessages(history)
    \o <<[role |-> "user", text |-> userMessage]>>

\* chatWithDocumentStream(doc, userMessage, history, settings) up to its request.
ChatRequest(doc, userMessage, history, s) ==
  IF s.provider = "google" THEN GoogleContents(Context(doc), history, userMessage)
  ELSE OpenAIMessages(Context(doc), history, userMessage)

\* handleSendMessage up to its first await: the guard, the two new messages,
\* the first write of the history, and the call of the generator up to its
\* request.  Date.now() is read twice: clock for the user message, clock' for
\* the placeholder; the step that takes this action says how far the clock
\* moved in between.
\* The conversation with the placeholder of the reply behind its last message.
PlaceholderFirst(history, userMsg, initialAiMsg) ==
  <<initialAiMsg>> \o Append(history, userMsg)

\* [...history, userMsg] and then [...newHistory, initialAiMsg].
initialHistory(history, userMsg, initialAiMsg) ==
  Append(Append(history, userMsg), initialAiMsg)

SendMessage(input) ==
  /\ DocumentViewMounted
  /\ Trim(input) # <<>>
  /\ ~isChatSending
  /\ pc = "idle"
  /\ LET userMsg == [id |-> createId(nextId + 1), role |-> "user", text |-> input,
                     timestamp |-> clock]
         aiMsgId == createId(nextId + 2)
         initialAiMsg == [id |-> aiMsgId, role |-> "model", text |-> <<>>,
                          timestamp |-> clock']
         runningHistory == initialHistory(activeChatHistory, userMsg, initialAiMsg)
         projectId == currentProject[1].id
     IN /\ projects' =
             IF currentDocument # <<>>
             THEN handleUpdateDocument(projects, projectId,
                    [currentDocument[1] EXCEPT !.chatHistory = runningHistory])
             ELSE projects
        /\ tempChatHistory' =
             IF currentDocument # <<>> THEN tempChatHistory ELSE runningHistory
        /\ thinkingMessageId' = aiMsgId
        /\ send' = << [document |-> currentDocument,
                       projectId |-> projectId,
                       projects |-> projects,
                       thinkingMessageId |-> thinkingMessageId,
                       history |-> activeChatHistory,
                       userMessage |-> input,
                       aiMsgId |-> aiMsgId,
                       aiTextAccumulator |-> <<>>,
                       runningHistory |-> runningHistory] >>
  /\ nextId' = nextId + 2
  /\ isChatSending' = TRUE
  /\ pc' = "fetch"
  /\ pos' = 0
  /\ buffer' = <<>>
  /\ tokens' = <<>>
  /\ requests' = Append(requests, "chat")
  /\ sent' = ChatRequest(currentDocument, input, activeChatHistory, settings)
  /\ UNCHANGED <<settings, backend, currentProjectId, currentDocumentId, viewMode>>
  /\ UNCHANGED <<analysisVars, extractVars, authVars, detached>>

frame == <<settings, backend, currentProjectId, currentDocumentId, viewMode, nextId,
           analysisVars, requestVars, extractVars, clock, authVars, detached>>

\* --- completion-compatible stream ---

\* fetch resolves with a 2xx response that has a body.
FetchOk ==
  /\ pc = "fetch" /\ settings.provider = "openai" /\ backend.status = "ok"
  /\ pc' = "read"
  /\ UNCHANGED <<projects, tempChatHistory, thinkingMessageId, isChatSending, send,
                 pos, buffer, tokens>>
  /\ UNCHANGED frame

\* if (!response.ok || !response.body) { yield "Error connecting to API."; return; }
FetchRefused ==
  /\ pc = "fetch" /\ settings.provider = "openai"
  /\ backend.status \in {"bad_status", "no_body"}
  /\ Emit(<<ErrorConnecting>>, "failed")
  /\ UNCHANGED <<pos, buffer>>
  /\ UNCHANGED frame

\* fetch rejects: catch (e) { yield "Error: " + e.message }
FetchThrows ==
  /\ pc = "fetch" /\ settings.provider = "openai" /\ backend.status = "throws"
  /\ \E c \in {Caught(NetworkErrorMessage)} : Emit(c.tokens, c.pc)
  /\ UNCHANGED <<pos, buffer>>
  /\ UNCHANGED frame

\* The chunk lengths the transport may deliver when rem characters are left.
ChunkSizes(rem) == {n \in 1..rem : n <= MaxChunk \/ n = rem}

\* reader.read() resolves with the next n characters: one pass of the while
\* loop.  At the sentinel the generator returns and the response is dropped.
ReaderRead(n) ==
  /\ pc = "read" /\ settings.provider = "openai"
  /\ n \in ChunkSizes(Len(backend.text) - pos)
  /\ \E d \in {DecodeChunk(buffer, SubSeq(backend.text, pos + 1, pos + n))} :
       /\ Emit(d.tokens, IF d.returned THEN "returned" ELSE "read")
       /\ pos' = IF d.returned THEN 0 ELSE pos + n
       /\ buffer' = IF d.returned THEN <<>> ELSE d.buffer
  /\ UNCHANGED frame

\* Variant: at done the line left in the buffer is processed like a complete
\* line before the generator ends.
ReaderDoneFlushes ==
  /\ pc = "read" /\ settings.provider = "openai"
  /\ pos = Len(backend.text)
  /\ \E d \in {DecodeLines(<<buffer>>)} : Emit(d.tokens, "returned")
  /\ pos' = 0
  /\ buffer' = <<>>
  /\ UNCHANGED frame

\* Variant: done is not looked at, the loop awaits a read that never settles.
ReaderHangs ==
  /\ pc = "read" /\ settings.provider = "openai"
  /\ pos = Len(backend.text)
  /\ UNCHANGED <<projects, tempChatHistory, thinkingMessageId, isChatSending, send,
                 pc, pos, buffer, tokens>>
  /\ UNCHANGED frame

\* reader.read() resolves with done: break, and the generator ends.
ReaderDone ==
  /\ pc = "read" /\ settings.provider = "openai"
  /\ pos = Len(backend.text)
  /\ Emit(<<>>, "returned")
  /\ pos' = 0
  /\ buffer' = <<>>
  /\ UNCHANGED frame

\* reader.read() rejects (the connection drops): the catch block.
ReaderThrows ==
  /\ pc = "read" /\ settings.provider = "openai"
  /\ \E c \in {Caught(NetworkErrorMessage)} : Emit(c.tokens, c.pc)
  /\ pos' = 0
  /\ buffer' = <<>>
  /\ UNCHANGED frame

\* --- provider-native (google) stream ---

\* generateContentStream resolves with the stream handle.
GoogleOk ==
  /\ pc = "fetch" /\ settings.provider = "google" /\ backend.status = "ok"
  /\ pc' = "read"
  /\ UNCHANGED <<projects, tempChatHistory, thinkingMessageId, isChatSending, send,
                 pos, buffer, tokens>>
  /\ UNCHANGED frame

\* generateContentStream rejects.
GoogleThrows ==
  /\ pc = "fetch" /\ settings.provider = "google" /\ backend.status = "throws"
  /\ \E c \in {Caught(NetworkErrorMessage)} : Emit(c.tokens, c.pc)
  /\ UNCHANGED <<pos, buffer>>
  /\ UNCHANGED frame

\* for await (const chunk of result) { const text = chunk.text; if (text) yield text; }
GoogleChunk ==
  /\ pc = "read" /\ settings.provider = "google"
  /\ pos < Len(backend.chunks)
  /\ \E text \in {backend.chunks[pos + 1]} :
       Emit(IF Truthy(text) THEN <<text>> ELSE <<>>, "read")
  /\ pos' = pos + 1
  /\ UNCHANGED buffer
  /\ UNCHANGED frame

\* The stream handle is exhausted.
GoogleEnd ==
  /\ pc = "read" /\ settings.provider = "google"
  /\ pos = Len(backend.chunks)
  /\ Emit(<<>>, "returned")
  /\ pos' = 0
  /\ UNCHANGED buffer
  /\ UNCHANGED frame

\* The stream handle rejects while iterating.
GoogleStreamThrows ==
  /\ pc = "read" /\ settings.provider = "google"
  /\ \E c \in {Caught(NetworkErrorMessage)} : Emit(c.tokens, c.pc)
  /\ pos' = 0
  /\ UNCHANGED buffer
  /\ UNCHANGED frame

(***************************************************************************)
(* The chat specification: a logged-in user with one project open in the   *)
(* document view, with or without a current document.                      *)
(***************************************************************************)
ProjectId1 == <<"p", "1">>
DocumentId1 == <<"d", "1">>

Document1 ==
  [id |-> DocumentId1,
   title |-> <<"D">>,
   segments |-> << JObj(<< <<KId, JStr(<<"s", "1">>)>>, <<KTitle, JStr(<<"T">>)>>,
                           <<KSummary, JStr(<<"S">>)>>, <<KContent, JStr(<<"C">>)>> >>) >>,
   chatHistory |-> << [id |-> <<"m", "1">>, role |-> "user", text |-> <<"?">>,
                       timestamp |-> 0],
                      [id |-> <<"m", "2">>, role |-> "model", text |-> <<"o", "k">>,
                       timestamp |-> 1] >>]

Providers == {"google", "openai"}

Backends(provider) == IF provider = "google" THEN GoogleBackends ELSE SseBackends

NoProc == <<>>

\* extractJson was not called.
NotRun == [ok |-> FALSE, v |-> Undefined, run |-> FALSE]

NoInput == [array |-> <<>>, text |-> <<>>]

\* No request was issued, no view was left, extractJson was not applied.
AtRest ==
  /\ requests = <<>>
  /\ sent = <<>>
  /\ detached = <<>>
  /\ xin = NoInput
  /\ xout = NotRun
  /\ clock = 1
  /\ users = <<>>
  /\ regs = <<>>

AnalysisIdle ==
  /\ inputText = <<>>
  /\ keepOriginal = TRUE
  /\ isProcessing = FALSE
  /\ proc = NoProc
  /\ ppc = "idle"
  /\ segmentsData = Undefined
  /\ alerts = 0

Init ==
  /\ abackend = AnalysisOk(<<>>, Undefined)
  /\ AnalysisIdle
  /\ AtRest
  /\ settings \in [provider : Providers, openaiApiKey : {<<"s", "k">>}]
  /\ backend \in Backends(settings.provider)
  /\ \E docs \in {<<>>, <<Document1>>} :
       /\ projects = << [id |-> ProjectId1, name |-> <<"P">>, documents |-> docs] >>
       /\ currentDocumentId = IF docs = <<>> THEN Null ELSE DocumentId1
  /\ currentProjectId = ProjectId1
  /\ viewMode = "document"
  /\ nextId = 0
  /\ tempChatHistory = <<>>
  /\ isChatSending = FALSE
  /\ thinkingMessageId = Null
  /\ send = NoSend
  /\ pc = "idle"
  /\ pos = 0
  /\ buffer = <<>>
  /\ tokens = <<>>

Next ==
  \/ \E input \in ChatInputs : clock' = clock /\ SendMessage(input)
  \/ FetchOk
  \/ FetchRefused
  \/ FetchThrows
  \/ \E n \in 1..Len(backend.text) : ReaderRead(n)
  \/ ReaderDone
  \/ ReaderThrows
  \/ GoogleOk
  \/ GoogleThrows
  \/ GoogleChunk
  \/ GoogleEnd
  \/ GoogleStreamThrows

vars == <<appVars, chatVars, analysisVars, requestVars, extractVars, detached, clock,
         authVars>>

Spec == Init /\ [][Next]_vars

(***************************************************************************)
(* What the events of an SSE response are to yield, read off the events    *)
(* and the wire format, not off the decoder.                               *)
(***************************************************************************)
Sse == settings.provider = "openai" /\ backend.status = "ok"

\* An event cut off before its line end runs into the line of the next event,
\* which is then no frame of its own.
Intact(es, i) == i = 1 \/ es[i - 1].k # "partial"

\* Event i carries a token: a frame with non-empty content.
Carries(es, i) == es[i].k \in {"delta", "crlf"} /\ Intact(es, i)

IsSentinel(es, i) == es[i].k = "done" /\ Intact(es, i)

\* The index of the first sentinel; Len(es) + 1 when there is none.
FirstSentinel(es) ==
  IF \E i \in 1..Len(es) : IsSentinel(es, i)
  THEN CHOOSE i \in 1..Len(es) : IsSentinel(es, i) /\ \A j \in 1..(i - 1) : ~IsSentinel(es, j)
  ELSE Len(es) + 1

\* The number of characters after which the line of event i is complete.
LineEnd(es, i) ==
  Len(EventsText(SubSeq(es, 1, i - 1))) + Len(EventLine(es[i]))
    + (IF es[i].k = "crlf" THEN 2 ELSE 1)

\* The contents of the frames among the first m events, in order.
RECURSIVE Contents(_, _)
Contents(es, m) ==
  IF m = 0 THEN <<>>
  ELSE Contents(es, m - 1) \o (IF Carries(es, m) THEN <<es[m].c>> ELSE <<>>)

\* The last event before the first sentinel whose line is complete once n
\* characters are delivered; 0 when there is none.
LastCompleteBy(es, n) ==
  LET done == {i \in 1..(FirstSentinel(es) - 1) : es[i].k # "partial" /\ LineEnd(es, i) <= n}
  IN IF done = {} THEN 0 ELSE CHOOSE i \in done : \A j \in done : j <= i

SentinelDelivered(es, n) ==
  FirstSentinel(es) <= Len(es) /\ LineEnd(es, FirstSentinel(es)) <= n

IsErrorText(x) ==
  x.t = "str" /\ StartsWith(x.s, <<"E", "r", "r", "o", "r">>)

(***************************************************************************)
(* C1. Decoding is insensitive to chunk boundaries: however the transport  *)
(* splits the text, the tokens yielded after any delivered prefix, and the *)
(* line kept in the buffer, are those of decoding that prefix as a single  *)
(* chunk; a stream that ended yielded the tokens of its text decoded as a  *)
(* single chunk; and `Hi` + sentinel yields exactly <<"Hi">>.              *)
(***************************************************************************)
SameAsOneChunk(d) ==
  CASE pc = "read" -> ~d.returned /\ tokens = d.tokens /\ buffer = d.buffer
    [] pc = "returned" -> tokens = d.tokens
    [] OTHER -> TRUE

C1_BoundaryInsensitive ==
  Sse =>
    /\ SameAsOneChunk(DecodeChunk(<<>>,
         IF pc = "read" THEN SubSeq(backend.text, 1, pos) ELSE backend.text))
    /\ (pc = "returned" /\ backend.events = <<EvHi, EvDone>> => tokens = <<JStr(TextHi)>>)

\* The `Hi` response was split inside its sentinel line, after the token.
C1_Witness ==
  /\ Sse /\ backend.events = <<EvHi, EvDone>>
  /\ pc = "read"
  /\ buffer = <<"d", "a", "t", "a", ":", " ", "[", "D">>
  /\ tokens = <<JStr(TextHi)>>

(***************************************************************************)
(* C2. Once the sentinel line is processed the sequence is over: the       *)
(* generator is never again waiting for a chunk after the sentinel line    *)
(* was delivered, and a sequence that ended holds no token of a frame that *)
(* follows the sentinel.                                                   *)
(***************************************************************************)
C2_EndsAtSentinel ==
  Sse =>
    /\ (pc = "read" => ~SentinelDelivered(backend.events, pos))
    /\ (pc = "returned" =>
          Len(tokens) = Len(Contents(backend.events, FirstSentinel(backend.events) - 1)))

\* A frame follows the sentinel and yielded nothing.
C2_Witness ==
  /\ Sse /\ backend.events = <<EvHi, EvDone, EvB>>
  /\ pc = "returned"
  /\ tokens = <<JStr(TextHi)>>

(***************************************************************************)
(* C3. A `data: ` line that is no JSON is skipped: a response with such a  *)
(* line that ran to its end yielded the content of every frame before the  *)
(* sentinel, in order, and no error text.                                  *)
(***************************************************************************)
HasMalformed(es) == \E i \in 1..Len(es) : es[i].k = "bad" /\ i < FirstSentinel(es)

C3_MalformedSkipped ==
  Sse /\ pc = "returned" /\ HasMalformed(backend.events) =>
    /\ tokens = Contents(backend.events, FirstSentinel(backend.events) - 1)
    /\ \A i \in 1..Len(tokens) : ~IsErrorText(tokens[i])

\* The malformed line stood between two valid frames, and both came through.
C3_Witness ==
  /\ Sse /\ backend.events = <<EvHi, EvBad, EvB>>
  /\ pc = "returned"
  /\ tokens = <<JStr(TextHi), JStr(TextB)>>

(***************************************************************************)
(* C4. While the stream is read, the tokens yielded are exactly the        *)
(* contents of the frames with non-empty content whose line is complete,   *)
(* one token each, in arrival order, up to the sentinel; no token is the   *)
(* empty string.                                                           *)
(***************************************************************************)
C4_OneTokenPerFrame ==
  Sse =>
    /\ (pc = "read" =>
          tokens = Contents(backend.events, LastCompleteBy(backend.events, pos)))
    /\ (pc = "returned" =>
          tokens = Contents(backend.events, FirstSentinel(backend.events) - 1))
    /\ \A i \in 1..Len(tokens) : tokens[i] # JStr(<<>>)

\* A frame with empty content was processed before a frame that yielded.
C4_Witness ==
  /\ Sse /\ backend.events = <<[k |-> "empty", c |-> JStr(<<>>)], EvB>>
  /\ pc = "read"
  /\ tokens = <<JStr(TextB)>>

(***************************************************************************)
(* C5. A network failure never leaves chatWithDocumentStream as an         *)
(* exception.  When the request or the stream fails (the transport         *)
(* rejects, the status is not 2xx, the body is missing; either provider)   *)
(* the generator ends in "failed": its last token is an error text, no     *)
(* token before it is one, and the consumer has run to its end.            *)
(***************************************************************************)
BackendFails == backend.status \in {"bad_status", "no_body", "throws"}

C5_FailureIsOneLastToken ==
  /\ pc # "threw"
  /\ (BackendFails /\ pc \notin {"idle", "fetch"} => pc = "failed")
  /\ (pc = "failed" =>
        /\ tokens # <<>>
        /\ IsErrorText(tokens[Len(tokens)])
        /\ \A i \in 1..(Len(tokens) - 1) : ~IsErrorText(tokens[i])
        /\ send = NoSend /\ ~isChatSending)

\* A provider-native stream broke after it had yielded one token.
C5_Witness ==
  /\ settings.provider = "google"
  /\ pc = "failed"
  /\ tokens = <<JStr(TextHi), ErrorToken(NetworkErrorMessage)>>

(***************************************************************************)
(* C6. When the stream has failed, the model message that handleSendMessage *)
(* wrote is the last of the active history and its text is the             *)
(* concatenation of the tokens delivered before the failure followed by    *)
(* the error token: never the error text alone when tokens came before it, *)
(* and never empty.                                                        *)
(***************************************************************************)
RECURSIVE TextOf(_)
TextOf(toks) == IF toks = <<>> THEN <<>> ELSE ToText(Head(toks)) \o TextOf(Tail(toks))

ReplyIs(history, text) ==
  /\ history # <<>>
  /\ history[Len(history)].role = "model"
  /\ history[Len(history)].text = text

C6_DeliveredTokensKept ==
  pc = "failed" =>
    /\ ReplyIs(activeChatHistory, TextOf(tokens))
    /\ TextOf(tokens) # <<>>
    /\ (Len(tokens) > 1 => TextOf(tokens) # ToText(tokens[Len(tokens)]))

\* Two tokens were delivered to a document's history before the connection
\* dropped.
C6_Witness ==
  /\ Sse /\ pc = "failed"
  /\ currentDocument # <<>>
  /\ tokens = <<JStr(TextHi), JStr(TextB), ErrorToken(NetworkErrorMessage)>>

(***************************************************************************)
(* handleProcess (components/DocumentView.tsx) and App.handleCreateDocument. *)
(* ppc is the position of handleProcess:                                   *)
(*   "idle"     not called yet (a behaviour follows one call)              *)
(*   "analyze"  awaiting analyzeText                                       *)
(*   "title"    awaiting generateTitle                                     *)
(*   "done"     the document was created                                   *)
(*   "failed"   the catch block ran                                        *)
(***************************************************************************)
\* The text area and the switch are rendered while there is no document.
InputShown == DocumentViewMounted /\ currentDocument = <<>>

InputTexts == {<<>>, <<" ">>, <<"x">>}

\* onChange of the text area
TypeInput(text) ==
  /\ InputShown /\ ppc = "idle"
  /\ inputText # text
  /\ inputText' = text
  /\ UNCHANGED <<keepOriginal, isProcessing, abackend, proc, ppc, segmentsData, alerts>>
  /\ UNCHANGED <<appVars, chatVars, requestVars, extractVars, clock, authVars, detached>>

\* onClick of the switch: setKeepOriginal(!keepOriginal)
ToggleKeepOriginal ==
  /\ InputShown /\ ppc = "idle"
  /\ keepOriginal' = ~keepOriginal
  /\ UNCHANGED <<inputText, isProcessing, abackend, proc, ppc, segmentsData, alerts>>
  /\ UNCHANGED <<appVars, chatVars, requestVars, extractVars, clock, authVars, detached>>

\* Variant: the catch block also clears the text area.
ProcessFailsClearing ==
  /\ alerts' = alerts + 1
  /\ isProcessing' = FALSE
  /\ ppc' = "failed"
  /\ inputText' = <<>>
  /\ UNCHANGED <<keepOriginal, abackend, segmentsData>>
  /\ UNCHANGED <<appVars, chatVars, requestVars, extractVars, clock, authVars, detached>>

\* catch (error) { alert(...) } finally { setIsProcessing(false) }
ProcessFails ==
  /\ alerts' = alerts + 1
  /\ isProcessing' = FALSE
  /\ ppc' = "failed"
  /\ UNCHANGED <<inputText, keepOriginal, abackend, segmentsData>>
  /\ UNCHANGED <<appVars, chatVars, requestVars, extractVars, clock, authVars, detached>>

\* handleProcess up to its first await on the network; when analyzeText
\* rejects without a request, through the catch block to its end.
Process ==
  /\ InputShown /\ ppc = "idle"
  /\ ~isProcessing
  /\ Trim(inputText) # <<>>
  /\ proc' = << [inputText |-> inputText,
                 keepOriginal |-> keepOriginal,
                 tempChatHistory |-> tempChatHistory,
                 projects |-> projects,
                 projectId |-> currentProject[1].id,
                 settings |-> settings,
                 mounted |-> TRUE] >>
  /\ IF SettlesAtOnce(inputText, settings)
     THEN ProcessFails
     ELSE /\ isProcessing' = TRUE
          /\ ppc' = "analyze"
          /\ requests' = Append(requests, "analyze")
          /\ UNCHANGED <<inputText, keepOriginal, abackend, segmentsData, alerts>>
          /\ UNCHANGED <<appVars, chatVars, sent, extractVars, clock, authVars, detached>>

\* analyzeText resolves, and generateTitle sends its request.
AnalyzeResolves ==
  /\ ppc = "analyze"
  /\ \E r \in {analyzeText(proc[1].inputText, proc[1].settings, proc[1].keepOriginal,
                           abackend)} :
       /\ r.ok
       /\ segmentsData' = r.v
  /\ ppc' = "title"
  /\ requests' = Append(requests, "title")
  /\ UNCHANGED <<inputText, keepOriginal, isProcessing, abackend, proc, alerts>>
  /\ UNCHANGED <<appVars, chatVars, sent, extractVars, clock, authVars, detached>>

\* analyzeText rejects.
AnalyzeRejects ==
  /\ ppc = "analyze"
  /\ ~analyzeText(proc[1].inputText, proc[1].settings, proc[1].keepOriginal, abackend).ok
  /\ ProcessFails
  /\ UNCHANGED proc

\* Variant: the segments in reverse order.
ReversedSegments(a, base) ==
  [i \in 1..Len(a) |->
     JObj(SpreadInto(<< <<KId, JStr(createId(base + i))>> >>,
                     SpreadProps(a[Len(a) + 1 - i])))]

\* segmentsData.map(s => ({ id: createId(), ...s })), after base calls of createId
newSegments(a, base) ==
  [i \in 1..Len(a) |->
     JObj(SpreadInto(<< <<KId, JStr(createId(base + i))>> >>, SpreadProps(a[i])))]

\* App.handleCreateDocument on the project list ps of its closure.
handleCreateDocument(ps, projectId, doc) ==
  [i \in 1..Len(ps) |->
     IF ps[i].id = projectId
     THEN [ps[i] EXCEPT !.documents = Append(ps[i].documents, doc)]
     ELSE ps[i]]

newDoc(res, segs, n) ==
  [id |-> createId(nextId + n + 1),
   title |-> generateTitle(res),
   segments |-> segs,
   chatHistory |-> proc[1].tempChatHistory]

\* onCreateDocument(projectId, newDoc); setInputText(""); setTempChatHistory([]).
\* The setters do nothing when the view of this handleProcess call is gone.
CreateDocument(doc, n) ==
  /\ projects' = handleCreateDocument(proc[1].projects, proc[1].projectId, doc)
  /\ currentDocumentId' = doc.id
  /\ viewMode' = "document"
  /\ nextId' = nextId + n + 1
  /\ inputText' = <<>>
  /\ tempChatHistory' = IF proc[1].mounted THEN <<>> ELSE tempChatHistory
  /\ isProcessing' = FALSE
  /\ ppc' = "done"

\* generateTitle settles with the answer res, and the document is assembled.
Assemble(res) ==
  /\ ppc = "title"
  /\ IsArray(segmentsData)
  /\ CreateDocument(newDoc(res, newSegments(segmentsData.a, nextId), Len(segmentsData.a)),
                    Len(segmentsData.a))
  /\ UNCHANGED <<settings, currentProjectId, keepOriginal, abackend, proc, segmentsData,
                 alerts>>
  /\ UNCHANGED <<chatVars, requestVars, extractVars, clock, authVars, detached>>

\* generateTitle settles, and segmentsData.map throws: it is no array.
AssembleThrows ==
  /\ ppc = "title"
  /\ ~IsArray(segmentsData)
  /\ ProcessFails
  /\ UNCHANGED proc

(***************************************************************************)
(* The analysis specification: one project open in the document view with  *)
(* no document, the chat at rest.                                          *)
(***************************************************************************)
InitAnalyze ==
  /\ settings \in [provider : Providers, openaiApiKey : {<<>>, <<"s", "k">>}]
  /\ abackend \in AnalysisBackends
  /\ AnalysisIdle
  /\ AtRest
  /\ projects = << [id |-> ProjectId1, name |-> <<"P">>, documents |-> <<>>] >>
  /\ currentProjectId = ProjectId1
  /\ currentDocumentId = Null
  /\ viewMode = "document"
  /\ nextId = 0
  /\ tempChatHistory \in {<<>>, Document1.chatHistory}   \* no chat yet, or one exchange
  /\ backend = [status |-> "ok", events |-> <<>>, text |-> <<>>, chunks |-> <<>>]
  /\ isChatSending = FALSE
  /\ thinkingMessageId = Null
  /\ send = NoSend
  /\ pc = "idle"
  /\ pos = 0
  /\ buffer = <<>>
  /\ tokens = <<>>

NextAnalyze ==
  \/ \E text \in InputTexts : TypeInput(text)
  \/ ToggleKeepOriginal
  \/ Process
  \/ AnalyzeResolves
  \/ AnalyzeRejects
  \/ \E res \in TitleResults : Assemble(res)
  \/ AssembleThrows

SpecAnalyze == InitAnalyze /\ [][NextAnalyze]_vars

(***************************************************************************)
(* The document handleProcess created, against the array the backend       *)
(* returned.                                                               *)
(***************************************************************************)
Created == ppc = "done"

CreatedSegments == currentDocument[1].segments

Empty == JStr(<<>>)

AllContent(items, x) == \A i \in 1..Len(items) : Get(items[i], KContent) = x

(***************************************************************************)
(* C7. With keepOriginal = false every record analyzeText returns, and     *)
(* every segment of the document assembled from them, has content "",      *)
(* on both providers and whatever content the backend's records carried.   *)
(***************************************************************************)
C7_SummaryOnlyHasNoContent ==
  /\ (ppc = "title" /\ ~proc[1].keepOriginal =>
        IsArray(segmentsData) /\ AllContent(segmentsData.a, Empty))
  /\ (Created /\ ~proc[1].keepOriginal => AllContent(CreatedSegments, Empty))

\* The provider-native backend returned a record with content, and the
\* segment made of it has none.
C7_Witness ==
  /\ Created /\ ~proc[1].keepOriginal
  /\ settings.provider = "google"
  /\ abackend.records = <<RecFull>>
  /\ Len(CreatedSegments) = 1
  /\ Get(CreatedSegments[1], KContent) = Empty

(***************************************************************************)
(* C8 as stated: the content of a segment is "" if and only if             *)
(* keepOriginal was false.                                                 *)
(***************************************************************************)
C8_EmptyIffSummaryOnly ==
  Created =>
    \A i \in 1..Len(CreatedSegments) :
      (Get(CreatedSegments[i], KContent) = Empty) <=> ~proc[1].keepOriginal

(***************************************************************************)
(* C8, amended.  The content of a segment is "" whenever keepOriginal was  *)
(* false.  With keepOriginal true it is the content of the backend's       *)
(* record when that is non-empty, and it is "" only when the record's      *)
(* content is empty or missing.                                            *)
(***************************************************************************)
ContentAsAsked(keep, content, given) ==
  /\ (~keep => content = Empty)
  /\ (keep /\ Truthy(given) => content = given)
  /\ (keep /\ content = Empty => ~Truthy(given))

C8_EmptyWhenSummaryOnlyOrAbsent ==
  Created =>
    /\ Len(CreatedSegments) = Len(abackend.records)
    /\ \A i \in 1..Len(CreatedSegments) :
         ContentAsAsked(proc[1].keepOriginal, Get(CreatedSegments[i], KContent),
                        Get(abackend.records[i], KContent))

\* Content was asked for, the record carried none, and the segment's is "".
C8_Witness ==
  /\ Created /\ proc[1].keepOriginal
  /\ settings.provider = "openai"
  /\ abackend.records = <<RecNoContent>>
  /\ Get(CreatedSegments[1], KContent) = Empty

(***************************************************************************)
(* C9 as stated: the document has one segment per record of the array the  *)
(* backend returned, in the same order, and the i-th segment carries the   *)
(* i-th record's title and summary.                                        *)
(***************************************************************************)
SameField(seg, rec, k) == Get(seg, k) = Get(rec, k)

C9_SegmentsCarryRecords ==
  Created =>
    /\ Len(CreatedSegments) = Len(abackend.records)
    /\ \A i \in 1..Len(CreatedSegments) :
         /\ SameField(CreatedSegments[i], abackend.records[i], KTitle)
         /\ SameField(CreatedSegments[i], abackend.records[i], KSummary)

(***************************************************************************)
(* C9, amended.  One segment per record, in the same order (nothing        *)
(* sorted, dropped or merged); the i-th segment carries the i-th record's  *)
(* title and summary, except that on the completion-compatible path a      *)
(* missing or empty title or summary is replaced by "No Title" or          *)
(* "No Summary".                                                           *)
(***************************************************************************)
Carried(x, placeholder) ==
  IF settings.provider = "google" THEN x ELSE OrElse(x, placeholder)

C9_SegmentsFollowRecords ==
  Created =>
    /\ Len(CreatedSegments) = Len(abackend.records)
    /\ \A i \in 1..Len(CreatedSegments) :
         /\ Get(CreatedSegments[i], KTitle)
              = Carried(Get(abackend.records[i], KTitle), NoTitle)
         /\ Get(CreatedSegments[i], KSummary)
              = Carried(Get(abackend.records[i], KSummary), NoSummary)

\* Two records with different titles, then one with an empty title.
C9_Witness ==
  /\ Created
  /\ settings.provider = "openai"
  /\ abackend.records = <<RecNoContent, RecEmptyTitle>>
  /\ Get(CreatedSegments[1], KTitle) = TextU
  /\ Get(CreatedSegments[2], KTitle) = NoTitle

(***************************************************************************)
(* C10 as stated: the id of the i-th segment is the value createId         *)
(* returned for it during assembly, whatever the backend's record holds.   *)
(***************************************************************************)
C10_IdsAreGenerated ==
  Created =>
    \A i \in 1..Len(CreatedSegments) :
      Get(CreatedSegments[i], KId)
        = JStr(createId(nextId - Len(CreatedSegments) - 1 + i))

(***************************************************************************)
(* C11 as stated: within an assembled document the ids of the segments     *)
(* are pairwise distinct, whatever array the analyzer returned.            *)
(***************************************************************************)
C11_SegmentIdsDistinct ==
  Created =>
    \A i \in 1..Len(CreatedSegments) : \A j \in 1..Len(CreatedSegments) :
      i # j => Get(CreatedSegments[i], KId) # Get(CreatedSegments[j], KId)


(***************************************************************************)
(* extractJson on its own: a backend serialises an array of records and    *)
(* wraps the text in a fenced code block; extractJson is applied to it.    *)
(***************************************************************************)
MaxFenced == 2

\* The strings of the records: plain, empty, with a quote and a line break
\* (escaped by the serialiser), and the fence itself.
RecordStrings ==
  { JStr(<<"T">>), JStr(<<>>), JStr(<<"a", "\"", "\n">>), JStr(Fence) }

FencedRecords ==
  { JObj(<< <<KTitle, t>>, <<KSummary, TextS>> >>) : t \in RecordStrings }
  \cup
  { JObj(<< <<KTitle, t>>, <<KSummary, TextS>>, <<KContent, c>> >>) :
      t \in RecordStrings, c \in {TextC, JStr(Fence)} }

FencedArrays == UNION {[1..n -> FencedRecords] : n \in 0..MaxFenced}

InitExtract ==
  /\ \E a \in FencedArrays, label \in {<<>>, JsonLabel} :
       xin = [array |-> a, text |-> Fenced(label, JSONstringify(JArr(a)))]
  /\ xout = NotRun
  /\ requests = <<>> /\ sent = <<>> /\ detached = <<>>
  /\ clock = 1 /\ users = <<>> /\ regs = <<>>
  /\ settings = [provider |-> "openai", openaiApiKey |-> <<"s", "k">>]
  /\ abackend = AnalysisOk(<<>>, Undefined)
  /\ AnalysisIdle
  /\ projects = <<>>
  /\ currentProjectId = Null
  /\ currentDocumentId = Null
  /\ viewMode = "dashboard"
  /\ nextId = 0
  /\ tempChatHistory = <<>>
  /\ backend = [status |-> "ok", events |-> <<>>, text |-> <<>>, chunks |-> <<>>]
  /\ isChatSending = FALSE
  /\ thinkingMessageId = Null
  /\ send = NoSend
  /\ pc = "idle"
  /\ pos = 0
  /\ buffer = <<>>
  /\ tokens = <<>>

\* let parsed = extractJson(content)
Extract ==
  /\ ~xout.run
  /\ \E r \in {extractJson(xin.text)} : xout' = [ok |-> r.ok, v |-> r.v, run |-> TRUE]
  /\ UNCHANGED <<appVars, chatVars, analysisVars, requestVars, detached, xin, clock,
                 authVars>>

NextExtract == Extract

SpecExtract == InitExtract /\ [][NextExtract]_vars

(* C12 as stated: extractJson applied to the fenced serialisation of an array of records returns a value equal to that array, whatever strings the records contain. *)
C12_RoundTrip ==
  xout.run => (xout.ok /\ xout.v = JArr(xin.array))

\* The round trip where no string of the records contains the fence.
FenceFree(a) ==
  \A i \in 1..Len(a) : \A j \in 1..Len(a[i].p) : a[i].p[j][2] # JStr(Fence)

C12_RoundTripFenceFree ==
  (xout.run /\ FenceFree(xin.array)) => (xout.ok /\ xout.v = JArr(xin.array))

(***************************************************************************)
(* The completion-compatible analyzer on content that is no array.         *)
(***************************************************************************)
OnOpenAI == proc # NoProc /\ proc[1].settings.provider = "openai"

\* analyzeWithOpenAI received a response: the request was sent and answered.
Answered == OnOpenAI /\ ppc \in {"title", "done", "failed"} /\ requests # <<>>

\* What the content of the response parses to.
ParsedContent == extractJson(ToText(abackend.text))

ContentParses == abackend.status = "ok" /\ Truthy(abackend.text) /\ ParsedContent.ok

IsObject(x) == x.t = "obj"

\* k is the first key, in the order of the object's own keys, whose value is
\* an array.
FirstArrayKey(x, n) ==
  /\ n \in 1..Len(ObjectKeys(x))
  /\ IsArray(Prop(x, ObjectKeys(x)[n]))
  /\ \A m \in 1..(n - 1) : ~IsArray(Prop(x, ObjectKeys(x)[m]))

HasArrayProperty(x) == \E n \in 1..Len(ObjectKeys(x)) : IsArray(Prop(x, ObjectKeys(x)[n]))

\* The records a are the array rs, with the placeholders for empty fields.
RecordsOf(a, rs) ==
  /\ Len(a) = Len(rs)
  /\ \A i \in 1..Len(a) :
       /\ Get(a[i], KTitle) = OrElse(Get(rs[i], KTitle), NoTitle)
       /\ Get(a[i], KSummary) = OrElse(Get(rs[i], KSummary), NoSummary)

(* C13: when the content of the completion backend parses to an object that is no array, analyzeWithOpenAI returns the records of the first array-valued own property in the order of the object's keys, and arrays under later keys are ignored; {"chapters":[{"title":"A","summary":"B"}]} gives the one record A/B. *)
C13_FirstArrayProperty ==
  (Answered /\ ContentParses /\ IsObject(ParsedContent.v)) =>
    \A n \in 1..Len(ObjectKeys(ParsedContent.v)) :
      FirstArrayKey(ParsedContent.v, n) =>
        /\ ppc \in {"title", "done"}
        /\ IsArray(segmentsData)
        /\ RecordsOf(segmentsData.a, Prop(ParsedContent.v, ObjectKeys(ParsedContent.v)[n]).a)

\* The array under "chapters" was taken, the longer one under "later" was not.
C13_Witness ==
  /\ Answered /\ ContentParses /\ IsObject(ParsedContent.v)
  /\ ObjectKeys(ParsedContent.v) = <<KNote, KChapters, KLater>>
  /\ ppc = "done"
  /\ Len(CreatedSegments) = 1
  /\ Get(CreatedSegments[1], KTitle) = JStr(<<"A">>)
  /\ Get(CreatedSegments[1], KSummary) = JStr(<<"B">>)

\* The project list handleProcess started from is still the project list.
NothingCreated == projects = proc[1].projects /\ currentDocumentId = Null

(* C14: when the content of the completion backend parses as JSON to a value that is neither an array nor an object with an array-valued own property, analyzeWithOpenAI fails: handleProcess gets no segments and creates nothing, and the one analysis request is the only request issued (no retry). *)
C14_NoArrayFailsOnce ==
  (Answered /\ ContentParses /\ ~IsArray(ParsedContent.v)
     /\ ~HasArrayProperty(ParsedContent.v)) =>
    /\ ppc = "failed"
    /\ segmentsData = Undefined
    /\ NothingCreated
    /\ requests = <<"analyze">>

\* {"title":"T"}: an object, none of whose properties is an array.
C14_Witness ==
  /\ Answered /\ ContentParses
  /\ IsObject(ParsedContent.v) /\ ObjectKeys(ParsedContent.v) = <<KTitle>>
  /\ ppc = "failed"
  /\ alerts = 1
  /\ requests = <<"analyze">>

(***************************************************************************)
(* The provider-native analyzer on a response that is no JSON array.       *)
(***************************************************************************)
OnGoogle == proc # NoProc /\ proc[1].settings.provider = "google"

\* generateContent resolved with a text that is not JSON, or JSON but no array.
NoJsonArray ==
  /\ abackend.status = "ok" /\ Truthy(abackend.text)
  /\ \/ ~JSONparse(abackend.text.s).ok
     \/ ~IsArray(JSONparse(abackend.text.s).v)

(* C15 as stated: on the provider-native path a response text that is no valid JSON, or valid JSON but no array, makes the analyze call itself fail, with keepOriginal true and with keepOriginal false alike: handleProcess never receives a value from it. *)
C15_GoogleRejectsNonArray ==
  (OnGoogle /\ NoJsonArray /\ ppc \in {"title", "done", "failed"}) =>
    /\ segmentsData = Undefined
    /\ requests = <<"analyze">>

(***************************************************************************)
(* The missing credential.                                                 *)
(***************************************************************************)
KeyMissing == OnOpenAI /\ proc[1].settings.openaiApiKey = <<>>

(* C16: analyzeText with the completion-compatible provider, a non-empty input text and an empty apiKey fails before any network request: handleProcess is in its catch block and no request was issued. *)
C16_MissingKeyFailsBeforeRequest ==
  KeyMissing =>
    /\ Trim(proc[1].inputText) # <<>>
    /\ ppc = "failed"
    /\ requests = <<>>

C16_Witness ==
  /\ KeyMissing
  /\ ppc = "failed"
  /\ alerts = 1
  /\ ~isProcessing
  /\ requests = <<>>

(***************************************************************************)
(* The session specification: the user moves between the dashboard and     *)
(* the document view while replies stream.  App renders DocumentView        *)
(* without a key (App.tsx 157-171): it is unmounted when the dashboard is   *)
(* shown or no project is current, and mounted again with the initial       *)
(* values of its useState calls.  The handleSendMessage call of the         *)
(* unmounted view goes on running on its closure: its state setters do      *)
(* nothing any more, its onUpdateDocument calls still reach App.            *)
(***************************************************************************)
MaxSends == 2

\* The tokens the running generator is still to yield if the response
\* arrives whole.
RestTokens ==
  IF backend.status = "throws" THEN Caught(NetworkErrorMessage).tokens
  ELSE IF settings.provider = "google"
  THEN SelectSeq(SubSeq(backend.chunks, pos + 1, Len(backend.chunks)), Truthy)
  ELSE IF backend.status # "ok" THEN <<ErrorConnecting>>
  ELSE DecodeChunk(buffer, SubSeq(backend.text, pos + 1, Len(backend.text))).tokens

\* DocumentView leaves the screen: a send that is running is detached from
\* it, a handleProcess call that is running loses its view, and the next
\* DocumentView starts from the useState initial values.
Unmount ==
  /\ inputText' = <<>>
  /\ keepOriginal' = TRUE
  /\ isProcessing' = FALSE
  /\ proc' = IF proc = NoProc THEN proc ELSE << [proc[1] EXCEPT !.mounted = FALSE] >>
  /\ detached' =
       IF send # NoSend THEN Append(detached, [s |-> send[1], rest |-> RestTokens])
       ELSE detached
  /\ send' = NoSend
  /\ pc' = "idle"
  /\ pos' = 0
  /\ buffer' = <<>>
  /\ tokens' = <<>>
  /\ isChatSending' = FALSE
  /\ thinkingMessageId' = Null
  /\ tempChatHistory' = <<>>

\* onGoHome
GoHome ==
  /\ currentProjectId' = Null
  /\ currentDocumentId' = Null
  /\ viewMode' = "dashboard"
  /\ IF DocumentViewMounted THEN Unmount
     ELSE UNCHANGED <<detached, send, pc, pos, buffer, tokens, isChatSending,
                      thinkingMessageId, tempChatHistory, inputText, keepOriginal,
                      isProcessing, proc>>
  /\ UNCHANGED <<settings, backend, projects, nextId, abackend, ppc, segmentsData,
                 alerts, requestVars, extractVars, clock, authVars>>

\* handleSelectProject(id), from the sidebar or the dashboard
SelectProject(id) ==
  /\ currentProjectId' = id
  /\ currentDocumentId' = Null
  /\ viewMode' = "document"
  /\ UNCHANGED <<settings, projects, nextId, tempChatHistory, chatVars, analysisVars,
                 requestVars, extractVars, clock, authVars, detached>>

\* handleSelectDocument(projectId, docId), from the sidebar
SelectDocument(projectId, docId) ==
  /\ currentProjectId' = projectId
  /\ currentDocumentId' = docId
  /\ viewMode' = "document"
  /\ UNCHANGED <<settings, projects, nextId, tempChatHistory, chatVars, analysisVars,
                 requestVars, extractVars, clock, authVars, detached>>

\* The locals of a detached send after its loop body ran for the token tok.
\* onUpdateDocument reaches App; setTempChatHistory and setThinkingMessageId
\* belong to the unmounted view.
DetachedDelivers(i, tok, rest) ==
  /\ \E s2 \in {WithText(detached[i].s,
                         Accumulate(detached[i].s.aiTextAccumulator, tok))} :
       /\ detached' = [detached EXCEPT ![i] = [s |-> s2, rest |-> rest]]
       /\ projects' =
            IF s2.document # <<>>
            THEN handleUpdateDocument(s2.projects, s2.projectId,
                   [s2.document[1] EXCEPT !.chatHistory = s2.runningHistory])
            ELSE projects
  /\ UNCHANGED <<settings, currentProjectId, currentDocumentId, viewMode, nextId,
                 tempChatHistory, chatVars, analysisVars, requestVars, extractVars, clock, authVars>>

\* The generator of a detached send yields its next token.
DetachedToken(i) ==
  /\ i \in 1..Len(detached)
  /\ detached[i].rest # <<>>
  /\ DetachedDelivers(i, Head(detached[i].rest), Tail(detached[i].rest))

\* The connection of a detached send drops: its generator yields the error
\* text and ends.
DetachedThrows(i) ==
  /\ i \in 1..Len(detached)
  /\ detached[i].rest # <<>>
  /\ \E c \in {Caught(NetworkErrorMessage)} : DetachedDelivers(i, c.tokens[1], <<>>)

\* The generator of a detached send ends; the `finally` block sets the state
\* of the unmounted view.
DetachedEnd(i) ==
  /\ i \in 1..Len(detached)
  /\ detached[i].rest = <<>>
  /\ detached' = SubSeq(detached, 1, i - 1) \o SubSeq(detached, i + 1, Len(detached))
  /\ UNCHANGED <<appVars, chatVars, analysisVars, requestVars, extractVars, clock, authVars>>

SessionBackends(provider) ==
  IF provider = "google"
  THEN { b \in GoogleBackends : b.status = "ok" => b.chunks = <<JStr(TextHi), JStr(TextB)>> }
  ELSE { b \in SseBackends : b.status = "ok" => b.events = <<EvHi>> }

\* The completion-compatible provider with and without its key.
SessionSettings ==
  { s \in [provider : Providers, openaiApiKey : {<<>>, <<"s", "k">>}] :
      s.provider = "google" => s.openaiApiKey = <<"s", "k">> }

InitSession ==
  /\ abackend = AnalysisOk(<<>>, Undefined)
  /\ AnalysisIdle
  /\ AtRest
  /\ settings \in SessionSettings
  /\ backend \in SessionBackends(settings.provider)
  /\ projects = << [id |-> ProjectId1, name |-> <<"P">>, documents |-> <<Document1>>] >>
  /\ currentProjectId = ProjectId1
  /\ currentDocumentId \in {Null, DocumentId1}
  /\ viewMode = "document"
  /\ nextId = 0
  /\ tempChatHistory = <<>>
  /\ isChatSending = FALSE
  /\ thinkingMessageId = Null
  /\ send = NoSend
  /\ pc = "idle"
  /\ pos = 0
  /\ buffer = <<>>
  /\ tokens = <<>>

NextSession ==
  \/ \E input \in ChatInputs :
       Len(requests) < MaxSends /\ clock' = clock /\ SendMessage(input)
  \/ FetchOk
  \/ FetchRefused
  \/ FetchThrows
  \/ \E n \in {Len(backend.text) - pos} : ReaderRead(n)   \* the body in one read
  \/ ReaderDone
  \/ ReaderThrows
  \/ GoogleOk
  \/ GoogleThrows
  \/ GoogleChunk
  \/ GoogleEnd
  \/ GoogleStreamThrows
  \/ GoHome
  \/ \E p \in 1..Len(projects) : SelectProject(projects[p].id)
  \/ \E p \in 1..Len(projects) : \E d \in 1..Len(projects[p].documents) :
       SelectDocument(projects[p].id, projects[p].documents[d].id)
  \/ \E i \in 1..MaxSends : DetachedToken(i)
  \/ \E i \in 1..MaxSends : DetachedThrows(i)
  \/ \E i \in 1..MaxSends : DetachedEnd(i)

SpecSession == InitSession /\ [][NextSession]_vars

(* C17 as stated: chatWithDocumentStream with the completion-compatible provider and an empty apiKey fails fast: no chat request is ever issued under such settings. *)
C17_ChatFailsFastWithoutKey ==
  (settings.provider = "openai" /\ settings.openaiApiKey = <<>>) =>
    \A i \in 1..Len(requests) : requests[i] # "chat"

(***************************************************************************)
(* Sends in flight.                                                        *)
(***************************************************************************)
\* Two sends of the same stored conversation: the chat of one document.
SameConversation(a, b) ==
  /\ a.document # <<>> /\ b.document # <<>>
  /\ a.projectId = b.projectId
  /\ a.document[1].id = b.document[1].id

\* The i-th detached send has tokens still to come.
Streaming(i) == detached[i].rest # <<>>

(* C19 as stated: at most one send is in flight per conversation: while a reply for a conversation is still streaming, no second handleSendMessage for the same conversation has started its request, also when the user left the document view and came back meanwhile. *)
C19_OneSendPerConversation ==
  /\ \A i \in 1..Len(detached) :
       (send # NoSend /\ Streaming(i)) => ~SameConversation(send[1], detached[i].s)
  /\ \A i \in 1..Len(detached) : \A j \in 1..Len(detached) :
       (i # j /\ Streaming(i) /\ Streaming(j))
         => ~SameConversation(detached[i].s, detached[j].s)

(***************************************************************************)
(* handleProcess after a failed analysis.                                  *)
(***************************************************************************)
\* analyzeText rejected: the missing key, the network, or the response.
AnalysisFailed ==
  /\ ppc = "failed"
  /\ ~analyzeText(proc[1].inputText, proc[1].settings, proc[1].keepOriginal, abackend).ok

(* C18: if analyzeText fails inside handleProcess, no document is created: the project list and the temporary chat history are what they were when handleProcess was called, no document is current, no id was drawn, the input text is kept, and isProcessing is false again. *)
C18_FailureLeavesNoDocument ==
  AnalysisFailed =>
    /\ projects = proc[1].projects
    /\ \A p \in 1..Len(projects) : projects[p].documents = <<>>
    /\ currentDocumentId = Null
    /\ nextId = 0
    /\ tempChatHistory = proc[1].tempChatHistory
    /\ inputText = proc[1].inputText
    /\ ~isProcessing
    /\ alerts = 1

\* The request failed with an exchange in the temporary chat history.
C18_Witness ==
  /\ AnalysisFailed
  /\ abackend.status = "throws"
  /\ requests = <<"analyze">>
  /\ tempChatHistory = Document1.chatHistory
  /\ inputText = <<"x">>
  /\ ~isProcessing

(***************************************************************************)
(* The message list of a chat request.  While a send runs, its            *)
(* runningHistory is the conversation as the send left it: the history     *)
(* from before the send, the new user message, the placeholder.            *)
(***************************************************************************)
\* The messages ms are those of the history h, in its order.
SameMessages(ms, h) ==
  /\ Len(ms) = Len(h)
  /\ \A i \in 1..Len(h) : ms[i].role = h[i].role /\ ms[i].text = h[i].text

\* ms is: the context, the conversation conv without its last two messages,
\* and the text of conv's last user message, in this order and nothing else.
RequestFor(ms, conv, doc) ==
  /\ Len(ms) = Len(conv)
  /\ ms[1].text = Context(doc)
  /\ SameMessages(SubSeq(ms, 2, Len(ms) - 1), SubSeq(conv, 1, Len(conv) - 2))
  /\ ms[Len(ms)].role = "user"
  /\ ms[Len(ms)].text = conv[Len(conv) - 1].text

(* C20: the message sequence a send hands to either backend is the context preamble, then the conversation history from before the send in its stored order, then the new user message, last and only once; the empty placeholder message of the reply is not part of it. *)
C20_RequestMessages ==
  send # NoSend =>
    /\ send[1].runningHistory[Len(send[1].runningHistory)].id = send[1].aiMsgId
    /\ send[1].runningHistory[Len(send[1].runningHistory) - 1].text = send[1].userMessage
    /\ RequestFor(sent, send[1].runningHistory, send[1].document)

\* A second send in a document whose chat holds the first exchange and its
\* reply: six messages go out, the fifth being the first reply.
C20_Witness ==
  /\ send # NoSend
  /\ send[1].document # <<>>
  /\ Len(sent) = 6
  /\ sent[5].role = "model" /\ sent[5].text # <<>>
  /\ sent[6].text = send[1].userMessage

(***************************************************************************)
(* The records the completion-compatible analyzer returns.                 *)
(***************************************************************************)
\* The array analyzeWithOpenAI accepts: the parsed content itself, or its
\* first array-valued property.
AcceptedArrays ==
  IF IsArray(ParsedContent.v) THEN {ParsedContent.v}
  ELSE { Prop(ParsedContent.v, ObjectKeys(ParsedContent.v)[n]) :
           n \in {m \in 1..Len(ObjectKeys(ParsedContent.v)) :
                    FirstArrayKey(ParsedContent.v, m)} }

\* Every element is a record (JSON null has no properties to read).
AllRecords(a) == \A i \in 1..Len(a) : ~Nullish(a[i])

Filled(x) == Truthy(x) /\ x # JStr(<<>>)

viewVars == <<detached, send, pc, pos, buffer, tokens, isChatSending, thinkingMessageId,
              tempChatHistory, inputText, keepOriginal, isProcessing, proc>>

\* handleCreateProject(name)
CreateProject(name) ==
  /\ projects' = Append(projects, [id |-> createId(nextId + 1), name |-> name,
                                   documents |-> <<>>])
  /\ nextId' = nextId + 1
  /\ currentProjectId' = createId(nextId + 1)
  /\ currentDocumentId' = Null
  /\ viewMode' = "document"
  /\ UNCHANGED <<settings, tempChatHistory, chatVars, analysisVars, requestVars,
                 extractVars, clock, authVars, detached>>

\* handleDeleteProject(id)
DeleteProject(id) ==
  /\ projects' = SelectSeq(projects, LAMBDA p : p.id # id)
  /\ IF currentProjectId = id
     THEN /\ currentProjectId' = Null
          /\ currentDocumentId' = Null
          /\ viewMode' = "dashboard"
          /\ IF DocumentViewMounted THEN Unmount ELSE UNCHANGED viewVars
     ELSE UNCHANGED <<currentProjectId, currentDocumentId, viewMode, viewVars>>
  /\ UNCHANGED <<settings, backend, nextId, abackend, ppc, segmentsData, alerts,
                 requestVars, extractVars, clock, authVars>>

\* handleDeleteDocument(projectId, docId)
DeleteDocument(projectId, docId) ==
  /\ projects' =
       [i \in 1..Len(projects) |->
          IF projects[i].id = projectId
          THEN [projects[i] EXCEPT
                  !.documents = SelectSeq(projects[i].documents, LAMBDA d : d.id # docId)]
          ELSE projects[i]]
  /\ currentDocumentId' = IF currentDocumentId = docId THEN Null ELSE currentDocumentId
  /\ UNCHANGED <<settings, currentProjectId, viewMode, nextId, tempChatHistory, chatVars,
                 analysisVars, requestVars, extractVars, clock, authVars, detached>>

\* No state of a DocumentView is left over from a view that is gone.
ViewSettled ==
  \/ DocumentViewMounted
  \/ /\ send = NoSend /\ pc = "idle" /\ tokens = <<>>
     /\ ~isChatSending /\ thinkingMessageId = Null /\ tempChatHistory = <<>>
     /\ inputText = <<>> /\ keepOriginal /\ ~isProcessing
     /\ (IF proc = NoProc THEN TRUE ELSE ~proc[1].mounted)

\* The render after a write of the project list finds the current project
\* gone: `currentProject && <DocumentView ...>` unmounts the view.
ViewGone ==
  /\ ~ViewSettled
  /\ Unmount
  /\ UNCHANGED <<settings, backend, projects, currentProjectId, currentDocumentId,
                 viewMode, nextId, abackend, ppc, segmentsData, alerts, requestVars,
                 extractVars, clock, authVars>>

ChatRequests == Cardinality({i \in 1..Len(requests) : requests[i] = "chat"})

NameQ == <<"Q">>

InitApp ==
  /\ AnalysisIdle
  /\ AtRest
  /\ settings = [provider |-> "google", openaiApiKey |-> <<>>]
  /\ backend = [status |-> "ok", events |-> <<>>, text |-> <<>>,
                chunks |-> <<JStr(TextHi), JStr(TextB)>>]
  /\ abackend = AnalysisOk(<<RecFull>>, JStr(JSONstringify(JArr(<<RecFull>>))))
  /\ projects = << [id |-> ProjectId1, name |-> <<"P">>, documents |-> <<Document1>>] >>
  /\ currentProjectId = ProjectId1
  /\ currentDocumentId \in {Null, DocumentId1}
  /\ viewMode = "document"
  /\ nextId = 0
  /\ tempChatHistory = <<>>
  /\ isChatSending = FALSE
  /\ thinkingMessageId = Null
  /\ send = NoSend
  /\ pc = "idle"
  /\ pos = 0
  /\ buffer = <<>>
  /\ tokens = <<>>

\* A step of the application; an event is handled once React has committed
\* the last render (ViewSettled).
NextApp ==
  \/ ViewGone
  \/ \E input \in ChatInputs :
       ViewSettled /\ ChatRequests = 0 /\ clock' = clock /\ SendMessage(input)
  \/ ViewSettled /\ GoogleOk
  \/ ViewSettled /\ GoogleChunk
  \/ ViewSettled /\ GoogleEnd
  \/ ViewSettled /\ GoHome
  \/ \E p \in 1..Len(projects) : ViewSettled /\ SelectProject(projects[p].id)
  \/ \E p \in 1..Len(projects) : \E d \in 1..Len(projects[p].documents) :
       ViewSettled /\ SelectDocument(projects[p].id, projects[p].documents[d].id)
  \/ ViewSettled /\ DetachedToken(1)
  \/ ViewSettled /\ DetachedEnd(1)
  \/ ViewSettled /\ TypeInput(<<"x">>)
  \/ ViewSettled /\ Process
  \/ ViewSettled /\ AnalyzeResolves
  \/ \E res \in {r \in TitleResults : Truthy(r.text)} : ViewSettled /\ Assemble(res)
  \/ /\ ViewSettled
     /\ \A p \in 1..Len(projects) : projects[p].name # NameQ
     /\ CreateProject(NameQ)
  \/ /\ ViewSettled
     /\ \E p \in 1..Len(projects) : projects[p].id = ProjectId1
     /\ DeleteProject(ProjectId1)
  \/ \E p \in 1..Len(projects) : \E d \in 1..Len(projects[p].documents) :
       ViewSettled /\ DeleteDocument(projects[p].id, projects[p].documents[d].id)

SpecApp == InitApp /\ [][NextApp]_vars

(***************************************************************************)
(* The clock.  Date.now() is read twice in handleSendMessage, for the user *)
(* message and for the placeholder of the reply; time passes between the   *)
(* two readings and never goes back.                                       *)
(***************************************************************************)
MaxClock == 2

\* The second reading of Date.now() in a handler that read clock first.
Later == {t \in {clock, clock + 1} : t <= MaxClock}

InitClock ==
  /\ AnalysisIdle
  /\ AtRest
  /\ settings = [provider |-> "google", openaiApiKey |-> <<>>]
  /\ backend = [status |-> "ok", events |-> <<>>, text |-> <<>>,
                chunks |-> <<JStr(TextHi)>>]
  /\ abackend = AnalysisOk(<<RecFull>>, JStr(JSONstringify(JArr(<<RecFull>>))))
  /\ projects = << [id |-> ProjectId1, name |-> <<"P">>, documents |-> <<Document1>>] >>
  /\ currentProjectId = ProjectId1
  /\ currentDocumentId \in {Null, DocumentId1}
  /\ viewMode = "document"
  /\ nextId = 0
  /\ tempChatHistory = <<>>
  /\ isChatSending = FALSE
  /\ thinkingMessageId = Null
  /\ send = NoSend
  /\ pc = "idle"
  /\ pos = 0
  /\ buffer = <<>>
  /\ tokens = <<>>

\* handleSendMessage has returned: the view takes the next message.
SendSettled ==
  /\ Ended(pc)
  /\ ~isChatSending
  /\ pc' = "idle"
  /\ tokens' = <<>>
  /\ pos' = 0
  /\ UNCHANGED <<appVars, backend, isChatSending, thinkingMessageId, send, buffer,
                 analysisVars, requestVars, extractVars, clock, authVars, detached>>

NextClock ==
  \/ \E input \in {<<"?">>}, t \in Later :
       ChatRequests < MaxSends /\ clock' = t /\ SendMessage(input)
  \/ GoogleOk
  \/ GoogleChunk
  \/ GoogleEnd
  \/ SendSettled
  \/ GoHome
  \/ \E p \in 1..Len(projects) : SelectProject(projects[p].id)
  \/ \E i \in 1..MaxSends : DetachedToken(i)
  \/ \E i \in 1..MaxSends : DetachedEnd(i)
  \/ TypeInput(<<"x">>)
  \/ Process
  \/ AnalyzeResolves
  \/ \E res \in {r \in TitleResults : Truthy(r.text)} : Assemble(res)

SpecClock == InitClock /\ [][NextClock]_vars

(***************************************************************************)
(* Timestamps.                                                             *)
(***************************************************************************)
Ordered(history) ==
  \A i \in 1..Len(history) : \A j \in 1..Len(history) :
    i < j => history[i].timestamp <= history[j].timestamp

(* C22: in every conversation's message list, the chatHistory of each document and the temporary history, the timestamps are non-decreasing along the list, after any sequence of sends and document creations (the clock never goes back). *)
C22_TimestampsOrdered ==
  /\ Ordered(tempChatHistory)
  /\ \A p \in 1..Len(projects) : \A d \in 1..Len(projects[p].documents) :
       Ordered(projects[p].documents[d].chatHistory)

\* Two sends at different times lie in the conversation of a created document.
C22_Witness ==
  \E p \in 1..Len(projects) : \E d \in 1..Len(projects[p].documents) :
    /\ projects[p].documents[d].id # DocumentId1
    /\ \E h \in {projects[p].documents[d].chatHistory} :
         /\ Len(h) = 4
         /\ h[1].timestamp < h[4].timestamp

(***************************************************************************)
(* The accumulated reply.                                                  *)
(***************************************************************************)
\* The messages of a conversation that carry the id.
MessagesWithId(history, id) == SelectSeq(history, LAMBDA m : m.id = id)

\* The id of the placeholder of the last send: the id made last.
lastAiMsgId == createId(nextId)

(* C23: during and after a send, the text of the model message created for that send is the concatenation, in delivery order, of all the tokens the stream has delivered so far: none is skipped, repeated or reordered. *)
C23_ReplyIsConcatenation ==
  /\ send # NoSend =>
        /\ send[1].aiMsgId = lastAiMsgId
        /\ send[1].aiTextAccumulator = TextOf(tokens)
  /\ pc # "idle" =>
        \E ms \in {MessagesWithId(activeChatHistory, lastAiMsgId)} :
          /\ Len(ms) = 1
          /\ ms[1].role = "model"
          /\ ms[1].text = TextOf(tokens)

\* Two different tokens have arrived in a conversation without a document and
\* the stream is still open.
C23_Witness ==
  /\ pc = "read"
  /\ currentDocument = <<>>
  /\ Len(tokens) = 2
  /\ ToText(tokens[1]) # ToText(tokens[2])
  /\ isChatSending

(***************************************************************************)
(* Termination.  The browser settles every fetch and every read: with a    *)
(* response, with the next bytes, with done, or with a rejection.  A       *)
(* rejection in the middle of a stream may happen but need not; the other  *)
(* results are the backend's and arrive.                                   *)
(***************************************************************************)
Arrives ==
  \/ FetchOk
  \/ FetchRefused
  \/ FetchThrows
  \/ ReaderDone
  \/ GoogleOk
  \/ GoogleThrows
  \/ GoogleChunk
  \/ GoogleEnd

\* A read of a body that has bytes left resolves with some of them: the steps
\* of ReaderRead, told by what they do to the generator's position.
ReadArrives ==
  /\ pc = "read" /\ settings.provider = "openai"
  /\ pos < Len(backend.text)
  /\ pc' \in {"read", "returned"}
  /\ pos' \in 0..Len(backend.text)
  /\ pc' = "read" => pos' > pos

SpecLive == Init /\ [][Next]_vars /\ WF_vars(Arrives) /\ WF_<<pc, pos>>(ReadArrives)

\* The stream has nothing more to deliver and did not end at a sentinel.
EndOfStream ==
  /\ pc = "read"
  /\ pos = IF settings.provider = "google" THEN Len(backend.chunks) ELSE Len(backend.text)

\* The read was cut off: the generator ended with the text of the rejection.
CutOff(p, toks) ==
  p = "failed" /\ toks # <<>> /\ toks[Len(toks)] = ErrorToken(NetworkErrorMessage)

(* C24: the chat token sequence is finite: whether the backend delivers the sentinel, reaches the end of the stream or fails, chatWithDocumentStream eventually terminates; the end of the stream without a sentinel ends the sequence normally, with no error token; once it has terminated isChatSending is false. *)
C24_StreamTerminates ==
  /\ (pc = "fetch") ~> Ended(pc)
  /\ [](Ended(pc) => ~isChatSending /\ send = NoSend)
  /\ [][EndOfStream => (pc' = "returned" /\ tokens' = tokens) \/ CutOff(pc', tokens')]_vars

\* A completion-compatible stream without a sentinel was read to its end and
\* the generator returned after two tokens.
C24_Witness ==
  /\ Sse /\ pc = "returned"
  /\ ~isChatSending
  /\ Len(tokens) = 2
  /\ \A i \in 1..Len(backend.events) : backend.events[i].k # "done"

(***************************************************************************)
(* What a send does to its conversation.                                   *)
(***************************************************************************)
\* The conversation before the send of a behaviour of Spec.
historyBefore == IF currentDocument # <<>> THEN Document1.chatHistory ELSE <<>>

\* The conversation without its last message.
Front(history) == SubSeq(history, 1, Len(history) - 1)

\* The conversation is the one before the send, the user message and one
\* message of the model with the placeholder's id.
TwoAppended(history) ==
  /\ Len(history) = Len(historyBefore) + 2
  /\ SubSeq(history, 1, Len(historyBefore)) = historyBefore
  /\ \E u \in {history[Len(history) - 1]} :
       /\ u.role = "user"
       /\ u.text \in ChatInputs
       /\ u.id = createId(nextId - 1)
  /\ \E m \in {history[Len(history)]} :
       /\ m.role = "model"
       /\ m.id = lastAiMsgId

(* C25: a send appends exactly two messages to the conversation, the user message and then one placeholder message of the model, and from then on changes only the text of that placeholder: the messages that were there before the send and the new user message stay unchanged and in place at every token update. *)
C25_OnlyPlaceholderChanges ==
  /\ [](IF pc = "idle" THEN activeChatHistory = historyBefore
        ELSE TwoAppended(activeChatHistory))
  /\ [][pc # "idle" =>
          /\ Front(activeChatHistory') = Front(activeChatHistory)
          /\ \E m \in {activeChatHistory[Len(activeChatHistory)]} :
               activeChatHistory'[Len(activeChatHistory)] =
                 [m EXCEPT !.text = activeChatHistory'[Len(activeChatHistory)].text]]_vars

\* Two tokens were written into a document's conversation, after the two
\* messages it had before the send and the question.
C25_Witness ==
  /\ currentDocument # <<>>
  /\ pc = "read"
  /\ Len(tokens) = 2
  /\ Len(activeChatHistory) = 4
  /\ activeChatHistory[4].text = TextOf(tokens)
  /\ activeChatHistory[2] = Document1.chatHistory[2]

(***************************************************************************)
(* The project list under token updates.                                   *)
(***************************************************************************)
ProjectIds(ps) == {ps[p].id : p \in 1..Len(ps)}

DocumentIds(ps) ==
  UNION {{<<ps[p].id, ps[p].documents[d].id>> : d \in 1..Len(ps[p].documents)} :
         p \in 1..Len(ps)}

\* The step is a token update: the loop body of a send ran for a token, in
\* the view on screen or detached from it.
TokenUpdate ==
  \/ pc = "read" /\ pc' = "read" /\ Len(tokens') = Len(tokens) + 1
  \/ Len(detached') = Len(detached) /\ detached' # detached

(* C26: a change made to the project list while a reply streams is not undone by the token updates that follow: a token update brings back no deleted document or project and removes no created project, that is, it leaves the projects and documents that exist as they are. *)
C26_TokenUpdatesKeepProjectList ==
  [][TokenUpdate =>
       /\ ProjectIds(projects') = ProjectIds(projects)
       /\ DocumentIds(projects') = DocumentIds(projects)]_vars

(***************************************************************************)
(* A document created while a reply streams in the temporary conversation. *)
(***************************************************************************)
\* The documents made by handleProcess: all but the document of the start.
CreatedDocuments ==
  UNION {{projects[p].documents[d] :
            d \in {e \in 1..Len(projects[p].documents) :
                     projects[p].documents[e].id # DocumentId1}} :
         p \in 1..Len(projects)}

\* No send is running, on screen or detached.
NoSendRunning == send = NoSend /\ detached = <<>>

\* The reply the provider streams, complete.
FullReply == TextOf(SelectSeq(backend.chunks, Truthy))

\* A conversation that was started without a document: its first two
\* messages are the question and the reply of the model.
StartedWithoutDocument(history) ==
  /\ Len(history) >= 2
  /\ history[1].role = "user"
  /\ history[2].role = "model"

(* C27: when handleProcess creates a document while a reply is still streaming in a conversation without a document, the reply is not lost or split: once the send is over the created document's chatHistory holds the complete reply, and the temporary history is empty after the creation. *)
C27_ReplyMovesToDocument ==
  \A doc \in CreatedDocuments :
    StartedWithoutDocument(doc.chatHistory) =>
      /\ tempChatHistory = <<>>
      /\ NoSendRunning => doc.chatHistory[2].text = FullReply

(***************************************************************************)
(* Navigation state.                                                       *)
(***************************************************************************)
(* C28: the navigation state of App is consistent in every reachable state: when currentDocumentId is not null, currentProjectId is not null and names an existing project that holds that document, and in the dashboard both ids are null; also when an analysis started by handleProcess completes after the user went home or deleted the project. *)
C28_NavigationConsistent ==
  /\ currentDocumentId # Null =>
       /\ currentProjectId # Null
       /\ <<currentProjectId, currentDocumentId>> \in DocumentIds(projects)
  /\ viewMode = "dashboard" => currentProjectId = Null /\ currentDocumentId = Null

(***************************************************************************)
(* The line left in the buffer at the end of the stream.                   *)
(***************************************************************************)
EvPartial == [k |-> "partial", c |-> JStr(<<"Z">>)]

\* The response ends, before any sentinel, in a frame without its line end.
EndsUnterminated(es) ==
  /\ es # <<>>
  /\ es[Len(es)] = EvPartial
  /\ FirstSentinel(es) > Len(es)

(* C29: only lines ended by a newline are decoded: when the byte stream ends without a sentinel, the text still in the buffer, a last data frame without its newline, is discarded and yields no token; and nothing of the buffer is yielded twice. *)
C29_UnterminatedFrameDiscarded ==
  Sse =>
    /\ \A i \in 1..Len(tokens) : tokens[i] # EvPartial.c
    /\ Len(SelectSeq(tokens, LAMBDA x : ~IsErrorText(x)))
         <= Len(Contents(backend.events, Len(backend.events)))
    /\ (pc = "returned" /\ EndsUnterminated(backend.events) =>
          tokens = Contents(backend.events, Len(backend.events) - 1))

\* The stream ended after a frame that yielded and a frame without line end.
C29_Witness ==
  /\ Sse /\ backend.events = <<EvHi, EvPartial>>
  /\ pc = "returned"
  /\ tokens = <<JStr(TextHi)>>
  /\ ~isChatSending

(***************************************************************************)
(* authService.registerUser.  The user list is the localStorage entry      *)
(* context_book_users_v1, shared by every tab of the browser; a call is    *)
(* three tasks: the call up to the awaited delay, the read and the check   *)
(* up to the awaited hash, and the push and the write.                     *)
(***************************************************************************)
MaxCalls == 3

Usernames == {<<"a">>, <<"b">>}

Password == <<"p", "w">>

\* hashPassword: the hex digest of the salted password, as a text of its own.
hashPassword(password) == <<"#">> \o password \o <<"_", "s", "a", "l", "t">>

\* users.find(u => u.username === username)
Registered(list, username) == \E i \in 1..Len(list) : list[i].username = username

\* registerUser(username, password) is called: await new Promise(setTimeout 500).
RegisterUser(username) ==
  /\ Len(regs) < MaxCalls
  /\ regs' = Append(regs, [username |-> username, pc |-> "delay", users |-> <<>>,
                           newUser |-> <<>>])
  /\ UNCHANGED <<appVars, chatVars, analysisVars, requestVars, extractVars, clock, users,
                 detached>>

\* const users = getUsers(); if (users.find(...)) throw ...; await hashPassword(password)
ReadUsers(i) ==
  /\ i \in 1..Len(regs)
  /\ regs[i].pc = "delay"
  /\ regs' = [regs EXCEPT ![i] =
                IF Registered(users, regs[i].username)
                THEN [regs[i] EXCEPT !.pc = "rejected"]
                ELSE [regs[i] EXCEPT !.pc = "hash", !.users = users]]
  /\ UNCHANGED <<appVars, chatVars, analysisVars, requestVars, extractVars, clock, users,
                 detached>>

\* const newUser = {...}; users.push(newUser); saveUsers(users); return newUser
SaveUsers(i) ==
  /\ i \in 1..Len(regs)
  /\ regs[i].pc = "hash"
  /\ \E newUser \in {[id |-> createId(nextId + 1), username |-> regs[i].username,
                      passwordHash |-> hashPassword(Password), createdAt |-> clock]} :
       /\ users' = Append(regs[i].users, newUser)
       /\ regs' = [regs EXCEPT ![i] = [@ EXCEPT !.pc = "returned", !.newUser = <<newUser>>]]
  /\ nextId' = nextId + 1
  /\ UNCHANGED <<settings, projects, currentProjectId, currentDocumentId, viewMode,
                 tempChatHistory, chatVars, analysisVars, requestVars, extractVars, clock,
                 detached>>

\* No user is logged in: App shows the Login form.
InitAuth ==
  /\ AnalysisIdle
  /\ AtRest
  /\ settings = [provider |-> "google", openaiApiKey |-> <<>>]
  /\ backend = [status |-> "ok", events |-> <<>>, text |-> <<>>, chunks |-> <<>>]
  /\ abackend = AnalysisOk(<<>>, Undefined)
  /\ projects = <<>>
  /\ currentProjectId = Null
  /\ currentDocumentId = Null
  /\ viewMode = "dashboard"
  /\ nextId = 0
  /\ tempChatHistory = <<>>
  /\ isChatSending = FALSE
  /\ thinkingMessageId = Null
  /\ send = NoSend
  /\ pc = "idle"
  /\ pos = 0
  /\ buffer = <<>>
  /\ tokens = <<>>

NextAuth ==
  \/ \E username \in Usernames : RegisterUser(username)
  \/ \E i \in 1..MaxCalls : ReadUsers(i)
  \/ \E i \in 1..MaxCalls : SaveUsers(i)

SpecAuth == InitAuth /\ [][NextAuth]_vars

(* C30: no two stored users ever share a username, and no registered user is lost from the user list, under any interleaving of registerUser calls: the username check, the awaited password hash and the saveUsers write are separate steps. *)
C30_UsersUniqueAndKept ==
  /\ \A i \in 1..Len(users) : \A j \in 1..Len(users) :
       users[i].username = users[j].username => i = j
  /\ \A i \in 1..Len(regs) :
       regs[i].pc = "returned" => Registered(users, regs[i].username)
============================================================================
